---- MODULE Spec2Model ----
(***************************************************************************)
(* Model of the Game Boy emulator core: cpu_step (src/app/src/cpu.c), the  *)
(* MMU (src/app/src/memory.c), the LCD sequencer at the end of cpu_step    *)
(* and the state effects of gpu_draw_line (src/app/src/gpu.c).             *)
(*                                                                         *)
(* The emulator context struct gb_s is one record, gb.  C functions that   *)
(* mutate *gb are operators from a context to the context they leave.      *)
(* Byte arrays that are zeroed at construction are kept sparse: a function *)
(* from the indices that hold a non-zero byte to that byte.                *)
(***************************************************************************)
EXTENDS Integers, Sequences, FiniteSets, TLC

VARIABLES gb, rom, nsteps, obs

vars == <<gb, rom, nsteps, obs>>

-----------------------------------------------------------------------------
(* Fixed-width arithmetic: uint8_t and uint16_t values and C's & | ^ ~.    *)

U8(x) == x % 256

U16(x) == x % 65536

RECURSIVE AndN(_, _, _)
AndN(a, b, n) ==
    IF n = 0 THEN 0
    ELSE (a % 2) * (b % 2) + 2 * AndN(a \div 2, b \div 2, n - 1)

And(a, b) == AndN(a, b, 16)

Or(a, b) == a + b - And(a, b)

Xor(a, b) == a + b - 2 * And(a, b)

Not8(a) == 255 - a

Bit(x, k) == (x \div (2 ^ k)) % 2

\* (int8_t)b : the byte reinterpreted as a signed offset
Int8(b) == IF b >= 128 THEN b - 256 ELSE b

BoolBit(p) == IF p THEN 1 ELSE 0

-----------------------------------------------------------------------------
(* Constants of gb_types.h, gpu.h and memory.h.                            *)

WRAM_SIZE == 8192
VRAM_SIZE == 8192
OAM_SIZE == 160
ROM_BANK_SIZE == 16384
CRAM_BANK_SIZE == 8192

IO_JOYP == 0
IO_DIV == 4
IO_IF == 15
IO_LCDC == 64
IO_STAT == 65
IO_SCY == 66
IO_SCX == 67
IO_LY == 68
IO_LYC == 69
IO_DMA == 70
IO_BGP == 71
IO_OBP0 == 72
IO_OBP1 == 73
IO_WY == 74
IO_WX == 75
IO_IE == 255

LCD_WIDTH == 160
LCD_HEIGHT == 144
LCD_VERT_LINES == 154
LCD_LINE_CYCLES == 456

LCD_MODE_HBLANK == 0
LCD_MODE_VBLANK == 1
LCD_MODE_OAM_SCAN == 2
LCD_MODE_LCD_DRAW == 3

LCDC_ENABLE == 128
LCDC_WINDOW_ENABLE == 32
LCDC_BG_ENABLE == 1

STAT_LYC_INTR == 64
STAT_MODE_2_INTR == 32
STAT_MODE_1_INTR == 16
STAT_MODE_0_INTR == 8
STAT_LYC_COINC == 4
STAT_MODE == 3

VBLANK_INTR == 1
LCDC_INTR == 2
TIMER_INTR == 4
SERIAL_INTR == 8
CONTROL_INTR == 16

DIV_CYCLES == 256

LCD_MODE2_OAM_SCAN_END == 80
LCD_MODE3_LCD_DRAW_END == 252

GB_ERROR_INVALID_OPCODE == 1

-----------------------------------------------------------------------------
(* Sparse zero-initialised byte arrays (wram, vram, oam, hram_io, and the  *)
(* host's ROM image and cartridge RAM).                                    *)

Rd(m, i) == IF i \in DOMAIN m THEN m[i] ELSE 0

Wr(m, i, v) ==
    IF v = 0
      THEN [x \in (DOMAIN m) \ {i} |-> m[x]]
      ELSE [x \in (DOMAIN m) \cup {i} |-> IF x = i THEN v ELSE m[x]]

Zeroed == [x \in {} |-> 0]

\* gb->hram_io[i]
IO(g, i) == Rd(g.hram_io, i)

SetIO(g, i, v) == [g EXCEPT !.hram_io = Wr(g.hram_io, i, v)]

\* STAT & STAT_MODE
StatMode(g) == IO(g, IO_STAT) % 4

\* hram_io[IO_STAT] = (hram_io[IO_STAT] & ~STAT_MODE) | mode
SetStatMode(g, mode) == SetIO(g, IO_STAT, IO(g, IO_STAT) - StatMode(g) + mode)

\* hram_io[IO_IF] |= bits
RaiseIF(g, bits) == SetIO(g, IO_IF, Or(IO(g, IO_IF), bits))

-----------------------------------------------------------------------------
(* Host hooks (src/app/src/rom.c): the ROM image and the cartridge RAM.    *)

\* bootloader_rom_read: g_rom_data[addr] below g_rom_size, else 0xFF
gb_rom_read(g, addr) ==
    IF addr < rom.size THEN Rd(rom.data, addr) ELSE 255

\* bootloader_cart_ram_read
gb_cart_ram_read(g, addr) ==
    IF addr < g.cram_size THEN Rd(g.cram, addr) ELSE 255

\* bootloader_cart_ram_write
gb_cart_ram_write(g, addr, val) ==
    IF addr < g.cram_size THEN [g EXCEPT !.cram = Wr(g.cram, addr, val)] ELSE g

-----------------------------------------------------------------------------
(* memory.c : mmu_read                                                     *)

\* the switchable window addressed from bank 0 on (the formula before the
\* fix noted in mmu_read)
rom_offset_from_zero(g, addr) ==
    IF addr < 16384 THEN addr
    ELSE IF g.mbc = 1 /\ g.cart_mode_select # 0
      THEN addr + (g.selected_rom_bank % 32) * ROM_BANK_SIZE
      ELSE addr + g.selected_rom_bank * ROM_BANK_SIZE

\* the offset mmu_read passes to the ROM hook for a read of addr < 0x8000
rom_offset(g, addr) ==
    IF addr < 16384 THEN addr
    ELSE IF g.mbc = 1 /\ g.cart_mode_select # 0
      THEN addr + ((g.selected_rom_bank % 32) - 1) * ROM_BANK_SIZE
      ELSE addr + (g.selected_rom_bank - 1) * ROM_BANK_SIZE

\* the offset mmu_read / mmu_write pass to the cartridge RAM hooks
cart_ram_offset(g, addr) ==
    IF g.mbc = 1 /\ g.cart_mode_select # 0 /\ g.cart_ram_bank < g.num_ram_banks
      THEN (addr - 40960) + g.cart_ram_bank * CRAM_BANK_SIZE
      ELSE addr - 40960

\* the negation of the test !gb->cart_ram || !gb->enable_cart_ram, which
\* mmu_read and mmu_write make before they call a cartridge RAM hook
cart_ram_closed(g) == g.cart_ram = 0 \/ g.enable_cart_ram = 0
cart_ram_open(g) == ~cart_ram_closed(g)

\* the index into wram[] of an address of 0xC000 - 0xDFFF
wram_index_4k(addr) == (addr - 49152) % 4096
wram_index(addr) == addr - 49152

\* the JOYP special case of mmu_read (addr == 0xFF00)
joyp_read(g) ==
    LET joyp == IO(g, IO_JOYP)
        result == Or(joyp, 15)
    IN  IF And(joyp, 16) = 0
          THEN And(result, Or(g.joypad \div 16, 240))
        ELSE IF And(joyp, 32) = 0
          THEN And(result, Or(g.joypad, 240))
        ELSE result

mmu_read(g, addr) ==
    IF addr < 32768 THEN gb_rom_read(g, rom_offset(g, addr))
    ELSE IF addr < 40960 THEN Rd(g.vram, addr - 32768)
    ELSE IF addr < 49152 THEN
        IF ~cart_ram_open(g) THEN 255
        ELSE gb_cart_ram_read(g, cart_ram_offset(g, addr))
    ELSE IF addr < 57344 THEN Rd(g.wram, wram_index(addr))
    ELSE IF addr < 65024 THEN Rd(g.wram, addr - 57344)
    ELSE IF addr < 65184 THEN Rd(g.oam, addr - 65024)
    ELSE IF addr < 65280 THEN 255
    ELSE IF addr = 65280 THEN joyp_read(g)
    ELSE IO(g, addr - 65280)

-----------------------------------------------------------------------------
(* memory.c : mmu_write                                                    *)

\* if ((selected_rom_bank & 0x1F) == 0) selected_rom_bank++
bank_low_keep(b) == b
bank_low_fix(b) == IF b % 32 = 0 THEN b + 1 ELSE b

\* MBC1 control writes, addr < 0x8000
mbc_write(g, addr, val) ==
    IF g.mbc # 1 THEN g
    ELSE IF addr < 8192
      THEN [g EXCEPT !.enable_cart_ram = BoolBit(val % 16 = 10)]
    ELSE IF addr < 16384
      THEN [g EXCEPT !.selected_rom_bank =
                And(bank_low_fix(Or(val % 32, And(g.selected_rom_bank, 96))),
                    g.num_rom_banks_mask)]
    ELSE IF addr < 24576
      THEN [g EXCEPT !.cart_ram_bank = val % 4,
                     !.selected_rom_bank =
                         And(Or((val % 4) * 32, g.selected_rom_bank % 32),
                             g.num_rom_banks_mask)]
    ELSE [g EXCEPT !.cart_mode_select = val % 2]

\* the copy taken one byte further on in the source
mmu_dma_transfer_skewed(g, source_high) ==
    [g EXCEPT !.oam = [i \in {j \in 0..(OAM_SIZE - 1) :
                                  mmu_read(g, source_high * 256 + j + 1) # 0}
                         |-> mmu_read(g, source_high * 256 + i + 1)]]

\* mmu_dma_transfer: oam[i] = mmu_read(source + i) for i = 0..159 in turn.
\* Only source_high = 0xFE reads OAM, and there byte i is read before it is
\* written, so every read sees the context as it was before the transfer.
mmu_dma_transfer(g, source_high) ==
    LET source == source_high * 256
        nz == {i \in 0..(OAM_SIZE - 1) : mmu_read(g, source + i) # 0}
    IN  [g EXCEPT !.oam = [i \in nz |-> mmu_read(g, source + i)]]

\* the LCDC byte stored and nothing else
lcdc_write_plain(g, val) == SetIO(g, IO_LCDC, val)

\* case IO_LCDC of mmu_write
lcdc_write(g, val) ==
    LET lcd_was_on == And(IO(g, IO_LCDC), LCDC_ENABLE)
        lcd_is_now_on == And(val, LCDC_ENABLE)
        g1 == SetIO(g, IO_LCDC, val)
    IN  IF lcd_was_on = 0 /\ lcd_is_now_on # 0
          THEN [SetIO(SetStatMode(g1, LCD_MODE_OAM_SCAN), IO_LY, 0)
                   EXCEPT !.lcd_blank = TRUE, !.lcd_count = 0]
        ELSE IF lcd_was_on # 0 /\ lcd_is_now_on = 0
          THEN [SetIO(SetStatMode(g1, LCD_MODE_HBLANK), IO_LY, 0)
                   EXCEPT !.lcd_count = 0]
        ELSE g1

\* case IO_DIV: hram_io[IO_DIV] = 0; counter.div_count = 0
div_reset_reg(g) == SetIO(g, IO_DIV, 0)
div_reset(g) == [SetIO(g, IO_DIV, 0) EXCEPT !.div_count = 0]

\* case IO_STAT: (val & 0x78) | (hram_io[IO_STAT] & 0x07) | 0x80
stat_store_raw(old, val) == val
stat_store(old, val) == Or(Or(And(val, 120), And(old, 7)), 128)

\* case IO_IF: val | 0xE0
if_store_raw(val) == val
if_store(val) == Or(val, 224)

\* the I/O register switch of mmu_write, io_offset = addr - 0xFF00
io_write(g, io_offset, val) ==
    CASE io_offset = IO_JOYP -> SetIO(g, IO_JOYP, Or(And(val, 48), 192))
      [] io_offset = IO_DIV -> div_reset(g)
      [] io_offset = IO_DMA -> mmu_dma_transfer(SetIO(g, IO_DMA, val), val)
      [] io_offset = IO_BGP ->
            [SetIO(g, IO_BGP, val) EXCEPT !.bg_palette =
                [i \in 0..3 |-> (val \div (4 ^ i)) % 4]]
      [] io_offset = IO_OBP0 ->
            [SetIO(g, IO_OBP0, val) EXCEPT !.sp_palette =
                [i \in 0..7 |-> IF i < 4 THEN (val \div (4 ^ i)) % 4
                                ELSE g.sp_palette[i]]]
      [] io_offset = IO_OBP1 ->
            [SetIO(g, IO_OBP1, val) EXCEPT !.sp_palette =
                [i \in 0..7 |-> IF i >= 4 THEN (val \div (4 ^ (i - 4))) % 4
                                ELSE g.sp_palette[i]]]
      [] io_offset = IO_LCDC -> lcdc_write(g, val)
      [] io_offset = IO_STAT ->
            SetIO(g, IO_STAT, stat_store(IO(g, IO_STAT), val))
      [] io_offset = IO_LY -> g
      [] io_offset = IO_IF -> SetIO(g, IO_IF, if_store(val))
      [] io_offset = IO_WY -> [g EXCEPT !.WY = val]
      [] OTHER -> SetIO(g, io_offset, val)

\* the store itself, without the record of the call
mmu_store(g, addr, val) ==
    IF addr < 32768 THEN mbc_write(g, addr, val)
    ELSE IF addr < 40960 THEN [g EXCEPT !.vram = Wr(g.vram, addr - 32768, val)]
    ELSE IF addr < 49152 THEN
        IF ~cart_ram_open(g) THEN g
        ELSE gb_cart_ram_write(g, cart_ram_offset(g, addr), val)
    ELSE IF addr < 57344
      THEN [g EXCEPT !.wram = Wr(g.wram, wram_index(addr), val)]
    ELSE IF addr < 65024 THEN [g EXCEPT !.wram = Wr(g.wram, addr - 57344, val)]
    ELSE IF addr < 65184 THEN [g EXCEPT !.oam = Wr(g.oam, addr - 65024, val)]
    ELSE IF addr < 65280 THEN g
    ELSE io_write(g, addr - 65280, val)

\* mmu_write(gb, addr, val); the calls made during one step are recorded in
\* g.writes (addr and val are the uint16_t / uint8_t the callee receives)
mmu_write(g, addr, val) ==
    LET a == U16(addr)
        v == U8(val)
        g1 == mmu_store(g, a, v)
    IN  [g1 EXCEPT !.writes = Append(g.writes, <<a, v>>)]

-----------------------------------------------------------------------------
(* Construction: bootloader() (rom.c), mmu_init (memory.c), cpu_init       *)
(* (cpu.c) and main() (main.c).                                            *)

\* calloc'ed struct gb_s with the hooks and cartridge info bootloader() sets
gb_alloc(cart) ==
    [ a |-> 0, f |-> 0, b |-> 0, c |-> 0, d |-> 0, e |-> 0, h |-> 0, l |-> 0,
      sp |-> 0, pc |-> 0,
      gb_halt |-> FALSE, gb_ime |-> FALSE, gb_frame |-> FALSE,
      lcd_blank |-> FALSE,
      mbc |-> cart.mbc, cart_ram |-> cart.cart_ram,
      num_rom_banks_mask |-> cart.num_rom_banks - 1,
      num_ram_banks |-> cart.num_ram_banks,
      selected_rom_bank |-> 0, cart_ram_bank |-> 0, enable_cart_ram |-> 0,
      cart_mode_select |-> 0,
      lcd_count |-> 0, div_count |-> 0,
      wram |-> Zeroed, vram |-> Zeroed, oam |-> Zeroed, hram_io |-> Zeroed,
      lcd_draw_line |-> FALSE,
      bg_palette |-> [i \in 0..3 |-> 0], sp_palette |-> [i \in 0..7 |-> 0],
      window_clear |-> 0, WY |-> 0,
      joypad |-> 0,
      gb_error |-> TRUE,
      cram |-> Zeroed, cram_size |-> cart.cram_size,
      exited |-> FALSE,
      writes |-> <<>>, draws |-> <<>>, errors |-> <<>>,
      opcode |-> -1, irq |-> -1, cycles |-> 0, vblank |-> FALSE,
      pre |-> [pc |-> 0, sp |-> 0, iflag |-> 0, ie |-> 0, ime |-> FALSE],
      svc |-> [pc |-> 0, sp |-> 0, iflag |-> 0, ime |-> FALSE,
               writes |-> <<>>] ]

mmu_init(g) ==
    LET g0 == [g EXCEPT !.wram = Zeroed, !.vram = Zeroed, !.oam = Zeroed,
                        !.hram_io = Zeroed]
        g1 == SetIO(SetIO(SetIO(SetIO(SetIO(SetIO(SetIO(SetIO(g0,
                  IO_JOYP, 207), IO_DIV, 171), IO_IF, 225), IO_LCDC, 145),
                  IO_STAT, 133), IO_BGP, 252), IO_OBP0, 255), IO_OBP1, 255)
        g2 == mmu_write(mmu_write(mmu_write(g1, 65351, 252), 65352, 255),
                        65353, 255)
    IN  [g2 EXCEPT !.selected_rom_bank = 1, !.cart_ram_bank = 0,
                   !.enable_cart_ram = 0, !.cart_mode_select = 0,
                   !.writes = <<>>]

\* cpu_init that leaves F as it finds it
cpu_init_keep_f(g) ==
    [g EXCEPT !.a = 1, !.b = 0, !.c = 19, !.d = 0, !.e = 216,
              !.h = 1, !.l = 77, !.sp = 65534, !.pc = 256,
              !.gb_halt = FALSE, !.gb_ime = TRUE]

cpu_init(g) ==
    [g EXCEPT !.a = 1, !.f = 176, !.b = 0, !.c = 19, !.d = 0, !.e = 216,
              !.h = 1, !.l = 77, !.sp = 65534, !.pc = 256,
              !.gb_halt = FALSE, !.gb_ime = TRUE]

\* main(): bootloader(), then the scanline hook and the joypad latch
main_init(cart) ==
    [cpu_init(mmu_init(gb_alloc(cart)))
        EXCEPT !.lcd_draw_line = TRUE, !.joypad = 255]

-----------------------------------------------------------------------------
(* gb_types.h : struct cpu_registers_s.  The 16-bit pairs are unions over  *)
(* their two bytes; F is a union of the byte and its four flag bits.       *)

BC(g) == g.b * 256 + g.c
DE(g) == g.d * 256 + g.e
HL(g) == g.h * 256 + g.l
SetBC(g, v) == [g EXCEPT !.b = U16(v) \div 256, !.c = U16(v) % 256]
SetDE(g, v) == [g EXCEPT !.d = U16(v) \div 256, !.e = U16(v) % 256]
SetHL(g, v) == [g EXCEPT !.h = U16(v) \div 256, !.l = U16(v) % 256]
SetSP(g, v) == [g EXCEPT !.sp = U16(v)]
SetPC(g, v) == [g EXCEPT !.pc = U16(v)]

FlagZ(g) == Bit(g.f, 7)
FlagN(g) == Bit(g.f, 6)
FlagH(g) == Bit(g.f, 5)
FlagC(g) == Bit(g.f, 4)
\* assignment to one f_bits member: the other bits of the byte are kept
SetBit(x, k, v) == x - Bit(x, k) * (2 ^ k) + v * (2 ^ k)
SetZ(g, v) == [g EXCEPT !.f = SetBit(g.f, 7, v)]
SetN(g, v) == [g EXCEPT !.f = SetBit(g.f, 6, v)]
SetH(g, v) == [g EXCEPT !.f = SetBit(g.f, 5, v)]
SetC(g, v) == [g EXCEPT !.f = SetBit(g.f, 4, v)]
SetFReg(g, v) == [g EXCEPT !.f = v]

\* operand number r of an opcode: 0 B, 1 C, 2 D, 3 E, 4 H, 5 L, 6 (HL), 7 A
GetR(g, r) ==
    CASE r = 0 -> g.b [] r = 1 -> g.c [] r = 2 -> g.d [] r = 3 -> g.e
      [] r = 4 -> g.h [] r = 5 -> g.l [] r = 6 -> mmu_read(g, HL(g))
      [] r = 7 -> g.a

SetR(g, r, v) ==
    CASE r = 0 -> [g EXCEPT !.b = v] [] r = 1 -> [g EXCEPT !.c = v]
      [] r = 2 -> [g EXCEPT !.d = v] [] r = 3 -> [g EXCEPT !.e = v]
      [] r = 4 -> [g EXCEPT !.h = v] [] r = 5 -> [g EXCEPT !.l = v]
      [] r = 6 -> mmu_write(g, HL(g), v)
      [] r = 7 -> [g EXCEPT !.a = v]

\* mmu_read(gb, gb->cpu_reg.pc.reg++): the byte, and the context after it
Imm8(g) == mmu_read(g, g.pc)
Adv(g, n) == [g EXCEPT !.pc = U16(g.pc + n)]
Imm16(g) == mmu_read(g, U16(g.pc + 1)) * 256 + mmu_read(g, g.pc)

-----------------------------------------------------------------------------
(* cpu.h : the instruction helper macros                                   *)

\* CPU_INC_R8 / CPU_DEC_R8 on a value: the flags they set, given the result
IncFlags(g, r) == SetZ(SetN(SetH(g, BoolBit(r % 16 = 0)), 0), BoolBit(r = 0))
DecFlags(g, r) == SetZ(SetN(SetH(g, BoolBit(r % 16 = 15)), 1), BoolBit(r = 0))

\* flags common to CPU_ADC_R8, CPU_SBC_R8, CPU_CP_R8; temp is the uint16_t
AluFlags(g, r, temp, n) ==
    SetZ(SetN(SetH(SetC(g, BoolBit(temp >= 256)),
                   BoolBit(And(Xor(Xor(g.a, r), temp), 16) > 0)),
              n),
         BoolBit(temp % 256 = 0))

CPU_ADC_R8(g, r, cin) ==
    LET temp == U16(g.a + r + cin)
    IN  [AluFlags(g, r, temp, 0) EXCEPT !.a = temp % 256]

\* CPU_SBC_R8 with the carry-in left out of the subtraction
CPU_SBC_R8_nocarry(g, r, cin) ==
    LET temp == U16(g.a - r)
    IN  [AluFlags(g, r, temp, 1) EXCEPT !.a = temp % 256]

CPU_SBC_R8(g, r, cin) ==
    LET temp == U16(g.a - (r + cin))
    IN  [AluFlags(g, r, temp, 1) EXCEPT !.a = temp % 256]

CPU_CP_R8(g, r) == AluFlags(g, r, U16(g.a - r), 1)

CPU_XOR_R8(g, r) ==
    LET a == Xor(g.a, r) IN SetZ([g EXCEPT !.a = a, !.f = 0], BoolBit(a = 0))

CPU_OR_R8(g, r) ==
    LET a == Or(g.a, r) IN SetZ([g EXCEPT !.a = a, !.f = 0], BoolBit(a = 0))

CPU_AND_R8(g, r) ==
    LET a == And(g.a, r)
    IN  SetH(SetZ([g EXCEPT !.a = a, !.f = 0], BoolBit(a = 0)), 1)

-----------------------------------------------------------------------------
(* cpu.c : cpu_step, the cases of the opcode switch.  Each operator takes  *)
(* the context after the opcode fetch (pc already incremented, g.cycles    *)
(* loaded from OPCODE_CYCLES) and returns the context after the case.      *)

AddCycles(g, n) == [g EXCEPT !.cycles = g.cycles + n]

\* 0x01 0x11 0x21 0x31 : LD rr, nn
op_ld_rr_nn(g, op) ==
    LET nn == Imm16(g)
        g1 == Adv(g, 2)
    IN  CASE op = 1 -> SetBC(g1, nn)
          [] op = 17 -> SetDE(g1, nn)
          [] op = 33 -> SetHL(g1, nn)
          [] op = 49 -> SetSP(g1, nn)

\* 0x03 0x13 0x23 0x33 / 0x0B 0x1B 0x2B 0x3B : INC rr / DEC rr
op_incdec_rr(g, op) ==
    LET k == IF op % 16 = 3 THEN 1 ELSE -1
    IN  CASE op \div 16 = 0 -> SetBC(g, BC(g) + k + 65536)
          [] op \div 16 = 1 -> SetDE(g, DE(g) + k + 65536)
          [] op \div 16 = 2 -> SetHL(g, HL(g) + k + 65536)
          [] op \div 16 = 3 -> SetSP(g, g.sp + k + 65536)

\* 0x04 .. 0x3C : INC r, INC (HL);  0x05 .. 0x3D : DEC r, DEC (HL)
op_inc_r(g, op) ==
    LET r == op \div 8
        v == U8(GetR(g, r) + 1)
    IN  SetR(IncFlags(g, v), r, v)

op_dec_r(g, op) ==
    LET r == op \div 8
        v == U8(GetR(g, r) + 255)
    IN  SetR(DecFlags(g, v), r, v)

\* 0x06 .. 0x3E : LD r, n and LD (HL), n
op_ld_r_n(g, op) == SetR(Adv(g, 1), op \div 8, Imm8(g))

\* 0x07 RLCA, 0x0F RRCA, 0x17 RLA, 0x1F RRA
op_rot_a(g, op) ==
    CASE op = 7 ->
            LET a == U8(g.a * 2 + g.a \div 128)
            IN  SetC([g EXCEPT !.a = a, !.f = 0], a % 2)
      [] op = 15 ->
            SetC([g EXCEPT !.a = U8(g.a \div 2 + g.a * 128), !.f = 0], g.a % 2)
      [] op = 23 ->
            SetC([g EXCEPT !.a = U8(g.a * 2 + FlagC(g)), !.f = 0], g.a \div 128)
      [] op = 31 ->
            SetC([g EXCEPT !.a = g.a \div 2 + FlagC(g) * 128, !.f = 0], g.a % 2)

\* DAA that looks at the low nibble only, not at H
op_daa_nibble(g) ==
    LET a0 == g.a
        a1 == IF FlagN(g) = 1
                THEN LET x == IF FlagH(g) = 1 THEN (a0 - 6) % 256 ELSE a0
                     IN  IF FlagC(g) = 1 THEN x - 96 ELSE x
                ELSE LET x == IF a0 % 16 > 9 THEN a0 + 6 ELSE a0
                     IN  IF FlagC(g) = 1 \/ x > 159 THEN x + 96 ELSE x
        g1 == IF Bit(a1 % 65536, 8) = 1 THEN SetC(g, 1) ELSE g
        a == a1 % 256
    IN  SetH(SetZ([g1 EXCEPT !.a = a], BoolBit(a = 0)), 0)

\* 0x27 DAA; a is the int16_t local, held here as a mathematical integer
op_daa(g) ==
    LET a0 == g.a
        a1 == IF FlagN(g) = 1
                THEN LET x == IF FlagH(g) = 1 THEN (a0 - 6) % 256 ELSE a0
                     IN  IF FlagC(g) = 1 THEN x - 96 ELSE x
                ELSE LET x == IF FlagH(g) = 1 \/ a0 % 16 > 9 THEN a0 + 6 ELSE a0
                     IN  IF FlagC(g) = 1 \/ x > 159 THEN x + 96 ELSE x
        g1 == IF Bit(a1 % 65536, 8) = 1 THEN SetC(g, 1) ELSE g
        a == a1 % 256
    IN  SetH(SetZ([g1 EXCEPT !.a = a], BoolBit(a = 0)), 0)

\* 0x2F CPL, 0x37 SCF, 0x3F CCF
op_cpl(g) == SetH(SetN([g EXCEPT !.a = Not8(g.a)], 1), 1)
op_scf(g) == SetC(SetH(SetN(g, 0), 0), 1)
op_ccf(g) == SetC(SetH(SetN(g, 0), 0), 1 - FlagC(g))

\* 0x09 0x19 : ADD HL, BC / ADD HL, DE
op_add_hl_xor(g, rr) ==
    LET result == HL(g) + rr
        g1 == SetC(SetH(SetN(g, 0),
                        BoolBit(And(Xor(Xor(HL(g), rr), result % 65536), 4096) # 0)),
                   BoolBit(result >= 65536))
    IN  SetHL(g1, result)

\* 0x29 0x39 : ADD HL, HL / ADD HL, SP
op_add_hl_sum(g, rr) ==
    LET result == HL(g) + rr
        g1 == SetC(SetH(SetN(g, 0),
                        BoolBit((HL(g) % 4096) + (rr % 4096) > 4095)),
                   BoolBit(result > 65535))
    IN  SetHL(g1, result)

\* 0x08 : LD (nn), SP
op_ld_nn_sp(g) ==
    LET addr == Imm16(g)
        g1 == Adv(g, 2)
    IN  mmu_write(mmu_write(g1, addr, g1.sp % 256), addr + 1, g1.sp \div 256)

\* 0x02 0x12 0x22 0x32 : LD (BC)/(DE)/(HL+)/(HL-), A
op_ld_ind_a(g, op) ==
    CASE op = 2 -> mmu_write(g, BC(g), g.a)
      [] op = 18 -> mmu_write(g, DE(g), g.a)
      [] op = 34 -> mmu_write(SetHL(g, HL(g) + 1), HL(g), g.a)
      [] op = 50 -> mmu_write(SetHL(g, HL(g) + 65535), HL(g), g.a)

\* 0x0A 0x1A 0x2A 0x3A : LD A, (BC)/(DE)/(HL+)/(HL-)
op_ld_a_ind(g, op) ==
    CASE op = 10 -> [g EXCEPT !.a = mmu_read(g, BC(g))]
      [] op = 26 -> [g EXCEPT !.a = mmu_read(g, DE(g))]
      [] op = 42 -> [SetHL(g, HL(g) + 1) EXCEPT !.a = mmu_read(g, HL(g))]
      [] op = 58 -> [SetHL(g, HL(g) + 65535) EXCEPT !.a = mmu_read(g, HL(g))]

\* the condition tested by the conditional forms: 0 NZ, 1 Z, 2 NC, 3 C
Cond(g, cc) ==
    CASE cc = 0 -> FlagZ(g) = 0 [] cc = 1 -> FlagZ(g) = 1
      [] cc = 2 -> FlagC(g) = 0 [] cc = 3 -> FlagC(g) = 1

\* 0x18 : JR n;  0x20 0x28 0x30 0x38 : JR cc, n
op_jr(g) == SetPC(g, g.pc + 1 + Int8(Imm8(g)) + 65536)

op_jr_cc(g, op) ==
    IF Cond(g, (op - 32) \div 8) THEN AddCycles(op_jr(g), 4) ELSE Adv(g, 1)

\* 0x40 .. 0x7F except 0x76 : LD r, r' / LD r, (HL) / LD (HL), r
op_ld_r_r(g, op) == SetR(g, (op - 64) \div 8, GetR(g, op % 8))

\* HALT as a NOP
op_halt_nop(g) == g

\* 0x76 : HALT
op_halt(g) == [g EXCEPT !.gb_halt = TRUE]

\* 0x80 .. 0xBF : ADD ADC SUB SBC AND XOR OR CP with operand r;
\* 0x97, 0x9F and 0xBF have cases of their own
op_alu(g, op) ==
    LET r == GetR(g, op % 8)
        kind == (op - 128) \div 8
    IN  CASE op = 151 -> SetN(SetZ([g EXCEPT !.a = 0, !.f = 0], 1), 1)
          [] op = 159 ->
                SetH(SetN(SetZ([g EXCEPT !.a = IF FlagC(g) = 1 THEN 255 ELSE 0],
                               1 - FlagC(g)), 1), FlagC(g))
          [] op = 191 -> SetN(SetZ([g EXCEPT !.f = 0], 1), 1)
          [] OTHER ->
                CASE kind = 0 -> CPU_ADC_R8(g, r, 0)
                  [] kind = 1 -> CPU_ADC_R8(g, r, FlagC(g))
                  [] kind = 2 -> CPU_SBC_R8(g, r, 0)
                  [] kind = 3 -> CPU_SBC_R8(g, r, FlagC(g))
                  [] kind = 4 -> CPU_AND_R8(g, r)
                  [] kind = 5 -> CPU_XOR_R8(g, r)
                  [] kind = 6 -> CPU_OR_R8(g, r)
                  [] kind = 7 -> CPU_CP_R8(g, r)

\* mmu_write(gb, --gb->cpu_reg.sp.reg, val)
Push8(g, val) == mmu_write(SetSP(g, g.sp + 65535), U16(g.sp + 65535), val)

\* mmu_write(gb, --sp, hi); mmu_write(gb, --sp, lo)
Push16(g, hi, lo) == Push8(Push8(g, hi), lo)

\* the 16-bit value read by lo = mmu_read(sp++); hi = mmu_read(sp++)
Pop16(g) == mmu_read(g, U16(g.sp + 1)) * 256 + mmu_read(g, g.sp)

\* 0xC9 RET, 0xD9 RETI, 0xC0 0xC8 0xD0 0xD8 RET cc
op_ret(g) == SetPC(SetSP(g, g.sp + 2), Pop16(g))
\* RETI that returns and leaves IME as it is
op_reti_plain(g) == op_ret(g)
op_reti(g) == [op_ret(g) EXCEPT !.gb_ime = TRUE]
op_ret_cc(g, op) ==
    IF Cond(g, (op - 192) \div 8) THEN AddCycles(op_ret(g), 12) ELSE g

\* POP with F taken as the whole byte read from the stack
op_pop_raw(g, op) ==
    LET v == Pop16(g)
        g1 == SetSP(g, g.sp + 2)
    IN  CASE op = 193 -> SetBC(g1, v)
          [] op = 209 -> SetDE(g1, v)
          [] op = 225 -> SetHL(g1, v)
          [] op = 241 -> [g1 EXCEPT !.f = v % 256, !.a = v \div 256]

\* 0xC1 0xD1 0xE1 : POP BC / DE / HL;  0xF1 : POP AF
op_pop(g, op) ==
    LET v == Pop16(g)
        g1 == SetSP(g, g.sp + 2)
    IN  CASE op = 193 -> SetBC(g1, v)
          [] op = 209 -> SetDE(g1, v)
          [] op = 225 -> SetHL(g1, v)
          [] op = 241 ->
                LET f == v % 256
                IN  [SetC(SetH(SetN(SetZ(g1, Bit(f, 7)), Bit(f, 6)), Bit(f, 5)),
                          Bit(f, 4))
                        EXCEPT !.a = v \div 256]

\* 0xC3 JP nn, 0xC2 0xCA 0xD2 0xDA JP cc, nn, 0xE9 JP (HL)
op_jp(g) == SetPC(g, Imm16(g))
\* JP cc without the cycles of the taken branch
op_jp_cc_flat(g, op) ==
    IF Cond(g, (op - 194) \div 8) THEN op_jp(g) ELSE Adv(g, 2)
op_jp_cc(g, op) ==
    IF Cond(g, (op - 194) \div 8) THEN AddCycles(op_jp(g), 4) ELSE Adv(g, 2)
op_jp_hl(g) == SetPC(g, HL(g))

\* 0xCD CALL nn, 0xC4 0xCC 0xD4 0xDC CALL cc, nn
op_call(g) ==
    LET nn == Imm16(g)
        g1 == Adv(g, 2)
    IN  SetPC(Push16(g1, g1.pc \div 256, g1.pc % 256), nn)
op_call_cc(g, op) ==
    IF Cond(g, (op - 196) \div 8) THEN AddCycles(op_call(g), 12) ELSE Adv(g, 2)

\* PUSH with the low byte stored first
op_push_swapped(g, op) ==
    CASE op = 197 -> Push16(g, g.c, g.b)
      [] op = 213 -> Push16(g, g.e, g.d)
      [] op = 229 -> Push16(g, g.l, g.h)
      [] op = 245 -> Push16(g, FlagZ(g) * 128 + FlagN(g) * 64
                                 + FlagH(g) * 32 + FlagC(g) * 16, g.a)

\* 0xC5 0xD5 0xE5 0xF5 : PUSH BC / DE / HL / AF
op_push(g, op) ==
    CASE op = 197 -> Push16(g, g.b, g.c)
      [] op = 213 -> Push16(g, g.d, g.e)
      [] op = 229 -> Push16(g, g.h, g.l)
      [] op = 245 -> Push16(g, g.a, FlagZ(g) * 128 + FlagN(g) * 64
                                      + FlagH(g) * 32 + FlagC(g) * 16)

\* 0xC7 0xCF .. 0xFF : RST
op_rst(g, op) == SetPC(Push16(g, g.pc \div 256, g.pc % 256), op - 199)

\* 0xC6 0xCE 0xD6 0xDE 0xE6 0xEE 0xF6 0xFE : ALU with immediate operand
op_alu_n(g, op) ==
    LET val == Imm8(g)
        g1 == Adv(g, 1)
        kind == (op - 198) \div 8
    IN  CASE kind = 0 -> CPU_ADC_R8(g1, val, 0)
          [] kind = 1 -> CPU_ADC_R8(g1, val, FlagC(g1))
          [] kind = 2 -> CPU_SBC_R8(g1, val, 0)
          [] kind = 3 -> CPU_SBC_R8(g1, val, FlagC(g1))
          [] kind = 4 -> CPU_AND_R8(g1, val)
          [] kind = 5 -> CPU_XOR_R8(g1, val)
          [] kind = 6 -> CPU_OR_R8(g1, val)
          [] kind = 7 -> CPU_CP_R8(g1, val)

\* 0xE0 LDH (n),A  0xF0 LDH A,(n)  0xE2 LD (C),A  0xF2 LD A,(C)
\* 0xEA LD (nn),A  0xFA LD A,(nn)
op_ldh(g, op) ==
    CASE op = 224 -> mmu_write(Adv(g, 1), 65280 + Imm8(g), g.a)
      [] op = 240 -> [Adv(g, 1) EXCEPT !.a = mmu_read(g, 65280 + Imm8(g))]
      [] op = 226 -> mmu_write(g, 65280 + g.c, g.a)
      [] op = 242 -> [g EXCEPT !.a = mmu_read(g, 65280 + g.c)]
      [] op = 234 -> mmu_write(Adv(g, 2), Imm16(g), g.a)
      [] op = 250 -> [Adv(g, 2) EXCEPT !.a = mmu_read(g, Imm16(g))]

\* 0xE8 ADD SP,n  0xF8 LD HL,SP+n  0xF9 LD SP,HL
op_sp(g, op) ==
    LET n == Imm8(g)
        g1 == Adv(g, 1)
        flags == SetC(SetH([g1 EXCEPT !.f = 0],
                           BoolBit((g.sp % 16) + (n % 16) > 15)),
                      BoolBit((g.sp % 256) + n > 255))
    IN  CASE op = 232 -> SetSP(flags, g.sp + Int8(n) + 65536)
          [] op = 248 -> SetHL(flags, g.sp + Int8(n) + 65536)
          [] op = 249 -> SetSP(g, HL(g))

\* 0xF3 DI, 0xFB EI
op_di(g) == [g EXCEPT !.gb_ime = FALSE]
op_ei(g) == [g EXCEPT !.gb_ime = TRUE]

-----------------------------------------------------------------------------
(* cpu.c : cpu_execute_cb                                                  *)

\* case 0 of op_type: the rotate / shift selected by op, on val with carry
\* cin; the result is <<val, carry out>> (SWAP leaves carry 0)
cb_shift(op, val, cin) ==
    CASE op = 0 -> <<U8(val * 2 + val \div 128), val \div 128>>
      [] op = 1 -> <<U8(val \div 2 + val * 128), val % 2>>
      [] op = 2 -> <<U8(val * 2 + cin), val \div 128>>
      [] op = 3 -> <<val \div 2 + cin * 128, val % 2>>
      [] op = 4 -> <<U8(val * 2), val \div 128>>
      [] op = 5 -> <<val \div 2 + (val \div 128) * 128, val % 2>>
      [] op = 6 -> <<(val \div 16) + (val % 16) * 16, 0>>
      [] op = 7 -> <<val \div 2, val % 2>>

\* the context after cpu_execute_cb, with g.cycles set to its return value
cpu_execute_cb(g) ==
    LET cbop == Imm8(g)
        g1 == Adv(g, 1)
        reg_idx == cbop % 8
        bit == (cbop \div 8) % 8
        op_type == cbop \div 64
        val == GetR(g1, reg_idx)
        cyc0 == IF reg_idx = 6 THEN 16 ELSE 8
    IN  CASE op_type = 0 ->
                LET res == cb_shift(bit, val, FlagC(g1))
                    g2 == SetZ(SetC([g1 EXCEPT !.f = 0], res[2]),
                               BoolBit(res[1] = 0))
                IN  [SetR(g2, reg_idx, res[1]) EXCEPT !.cycles = cyc0]
          [] op_type = 1 ->
                [SetH(SetN(SetZ(g1, 1 - Bit(val, bit)), 0), 1)
                    EXCEPT !.cycles = IF reg_idx = 6 THEN 12 ELSE 8]
          [] op_type = 2 ->
                [SetR(g1, reg_idx, SetBit(val, bit, 0)) EXCEPT !.cycles = cyc0]
          [] op_type = 3 ->
                [SetR(g1, reg_idx, SetBit(val, bit, 1)) EXCEPT !.cycles = cyc0]

-----------------------------------------------------------------------------
(* cpu.c : cpu_handle_interrupts                                           *)

\* the handler address and IF bit chosen by the priority chain
\* irq_vector with the priority order reversed
irq_vector_reversed(interrupts) ==
    CASE Bit(interrupts, 4) = 1 -> <<96, CONTROL_INTR>>
      [] Bit(interrupts, 3) = 1 -> <<88, SERIAL_INTR>>
      [] Bit(interrupts, 2) = 1 -> <<80, TIMER_INTR>>
      [] Bit(interrupts, 1) = 1 -> <<72, LCDC_INTR>>
      [] OTHER -> <<64, VBLANK_INTR>>

irq_vector(interrupts) ==
    CASE interrupts % 2 = 1 -> <<64, VBLANK_INTR>>
      [] Bit(interrupts, 1) = 1 -> <<72, LCDC_INTR>>
      [] Bit(interrupts, 2) = 1 -> <<80, TIMER_INTR>>
      [] Bit(interrupts, 3) = 1 -> <<88, SERIAL_INTR>>
      [] OTHER -> <<96, CONTROL_INTR>>

\* the jump of the chain: pc = handler, IF &= ~bit (v is irq_vector's pair)
irq_jump(g, v) ==
    [SetIO(SetPC(g, v[1]), IO_IF, And(IO(g, IO_IF), Not8(v[2])))
        EXCEPT !.irq = v[1]]

\* the part after the two early returns
irq_service(g, interrupts) ==
    irq_jump(Push16([g EXCEPT !.gb_ime = FALSE], g.pc \div 256, g.pc % 256),
             irq_vector(interrupts))

cpu_handle_interrupts(g) ==
    IF ~g.gb_ime THEN g
    ELSE IF And(And(IO(g, IO_IF), IO(g, IO_IE)), 31) = 0 THEN g
    ELSE irq_service(g, And(And(IO(g, IO_IF), IO(g, IO_IE)), 31))

-----------------------------------------------------------------------------
(* gpu.c : gpu_draw_line.  The pixel computation reads VRAM / OAM and      *)
(* fills a local buffer; what it changes in the context is kept: the IF    *)
(* write in the background block, the window line counter, the hook call.  *)

gpu_draw_line(g) ==
    IF ~g.lcd_draw_line THEN g
    ELSE IF IO(g, IO_LCDC) = 0 THEN g
    ELSE LET g1 == IF And(IO(g, IO_LCDC), LCDC_BG_ENABLE) # 0
                      /\ IO(g, IO_LY) = 144
                     THEN RaiseIF(g, 1) ELSE g
             g2 == IF And(IO(g1, IO_LCDC), LCDC_WINDOW_ENABLE) # 0
                      /\ IO(g1, IO_LY) >= g1.WY /\ IO(g1, IO_WX) <= 166
                     THEN [g1 EXCEPT !.window_clear = U8(g1.window_clear + 1)]
                     ELSE g1
         IN  [g2 EXCEPT !.draws = Append(g2.draws, IO(g2, IO_LY))]

-----------------------------------------------------------------------------
(* cpu.c : cpu_step                                                        *)

OPCODE_CYCLES ==
    << 4, 12,  8,  8,  4,  4,  8,  4, 20,  8,  8,  8,  4,  4,  8,  4,
       4, 12,  8,  8,  4,  4,  8,  4, 12,  8,  8,  8,  4,  4,  8,  4,
       8, 12,  8,  8,  4,  4,  8,  4,  8,  8,  8,  8,  4,  4,  8,  4,
       8, 12,  8,  8, 12, 12, 12,  4,  8,  8,  8,  8,  4,  4,  8,  4,
       4,  4,  4,  4,  4,  4,  8,  4,  4,  4,  4,  4,  4,  4,  8,  4,
       4,  4,  4,  4,  4,  4,  8,  4,  4,  4,  4,  4,  4,  4,  8,  4,
       4,  4,  4,  4,  4,  4,  8,  4,  4,  4,  4,  4,  4,  4,  8,  4,
       8,  8,  8,  8,  8,  8,  4,  8,  4,  4,  4,  4,  4,  4,  8,  4,
       4,  4,  4,  4,  4,  4,  8,  4,  4,  4,  4,  4,  4,  4,  8,  4,
       4,  4,  4,  4,  4,  4,  8,  4,  4,  4,  4,  4,  4,  4,  8,  4,
       4,  4,  4,  4,  4,  4,  8,  4,  4,  4,  4,  4,  4,  4,  8,  4,
       4,  4,  4,  4,  4,  4,  8,  4,  4,  4,  4,  4,  4,  4,  8,  4,
       8, 12, 12, 16, 12, 16,  8, 16,  8, 16, 12,  8, 12, 24,  8, 16,
       8, 12, 12,  0, 12, 16,  8, 16,  8, 16, 12,  0, 12,  0,  8, 16,
      12, 12,  8,  0,  0, 16,  8, 16, 16,  4, 16,  0,  0,  0,  8, 16,
      12, 12,  8,  4,  0, 16,  8, 16, 12,  8, 16,  4,  0,  0,  8, 16 >>

\* default: of the switch.  The error hook of the bootloader (and of the
\* test drivers) reports and calls exit(), so the step does not continue.
\* op_default reporting the address after the opcode byte
op_default_next(g) ==
    IF g.gb_error
      THEN [g EXCEPT !.errors = Append(g.errors,
                         <<GB_ERROR_INVALID_OPCODE, g.pc>>),
                     !.exited = TRUE]
      ELSE g

op_default(g) ==
    IF g.gb_error
      THEN [g EXCEPT !.errors = Append(g.errors,
                         <<GB_ERROR_INVALID_OPCODE, U16(g.pc + 65535)>>),
                     !.exited = TRUE]
      ELSE g

\* the switch (opcode) of cpu_step
execute(g, op) ==
    CASE op \in {0, 16} -> g
      [] op \in {1, 17, 33, 49} -> op_ld_rr_nn(g, op)
      [] op \in {3, 19, 35, 51, 11, 27, 43, 59} -> op_incdec_rr(g, op)
      [] op < 64 /\ op % 8 = 4 -> op_inc_r(g, op)
      [] op < 64 /\ op % 8 = 5 -> op_dec_r(g, op)
      [] op < 64 /\ op % 8 = 6 -> op_ld_r_n(g, op)
      [] op \in {7, 15, 23, 31} -> op_rot_a(g, op)
      [] op = 39 -> op_daa(g)
      [] op = 47 -> op_cpl(g)
      [] op = 55 -> op_scf(g)
      [] op = 63 -> op_ccf(g)
      [] op = 9 -> op_add_hl_xor(g, BC(g))
      [] op = 25 -> op_add_hl_xor(g, DE(g))
      [] op = 41 -> op_add_hl_sum(g, HL(g))
      [] op = 57 -> op_add_hl_sum(g, g.sp)
      [] op = 8 -> op_ld_nn_sp(g)
      [] op \in {2, 18, 34, 50} -> op_ld_ind_a(g, op)
      [] op \in {10, 26, 42, 58} -> op_ld_a_ind(g, op)
      [] op = 24 -> op_jr(g)
      [] op \in {32, 40, 48, 56} -> op_jr_cc(g, op)
      [] op = 118 -> op_halt(g)
      [] op \in 64..127 /\ op # 118 -> op_ld_r_r(g, op)
      [] op \in 128..191 -> op_alu(g, op)
      [] op \in {192, 200, 208, 216} -> op_ret_cc(g, op)
      [] op = 201 -> op_ret(g)
      [] op = 217 -> op_reti(g)
      [] op \in {193, 209, 225, 241} -> op_pop(g, op)
      [] op \in {194, 202, 210, 218} -> op_jp_cc(g, op)
      [] op = 195 -> op_jp(g)
      [] op = 233 -> op_jp_hl(g)
      [] op \in {196, 204, 212, 220} -> op_call_cc(g, op)
      [] op = 205 -> op_call(g)
      [] op \in {197, 213, 229, 245} -> op_push(g, op)
      [] op \in {199, 207, 215, 223, 231, 239, 247, 255} -> op_rst(g, op)
      [] op \in {198, 206, 214, 222, 230, 238, 246, 254} -> op_alu_n(g, op)
      [] op \in {224, 240, 226, 242, 234, 250} -> op_ldh(g, op)
      [] op \in {232, 248, 249} -> op_sp(g, op)
      [] op = 243 -> op_di(g)
      [] op = 251 -> op_ei(g)
      [] op = 203 -> cpu_execute_cb(g)
      [] OTHER -> op_default(g)

\* DIV register timing
div_timing(g, cycles) ==
    LET count == g.div_count + cycles
    IN  [SetIO(g, IO_DIV, U8(IO(g, IO_DIV) + count \div DIV_CYCLES))
            EXCEPT !.div_count = count % DIV_CYCLES]

\* the count left in lcd_count when a scanline ends
\* lcd_line_end without the subtraction
lcd_line_end_keep(count) == count
lcd_line_end(count) == count - LCD_LINE_CYCLES

\* the tests that end OAM scan, and that make a new line the VBlank entry
oam_scan_end_late(count) == count > LCD_MODE2_OAM_SCAN_END
oam_scan_end(count) == count >= LCD_MODE2_OAM_SCAN_END
vblank_line_all(ly) == ly >= LCD_HEIGHT
vblank_line(ly) == ly = LCD_HEIGHT

\* a new scanline whose VBlank entry leaves the LCD-STAT request out
lcd_new_line_quiet(g) ==
    LET ly == U8(IO(g, IO_LY) + 1)
        g1 == SetIO(g, IO_LY, ly)
        g2 == IF ly = IO(g1, IO_LYC)
                THEN LET c == SetIO(g1, IO_STAT, Or(IO(g1, IO_STAT), STAT_LYC_COINC))
                     IN  IF And(IO(c, IO_STAT), STAT_LYC_INTR) # 0
                           THEN RaiseIF(c, LCDC_INTR) ELSE c
                ELSE SetIO(g1, IO_STAT, And(IO(g1, IO_STAT), 251))
    IN  IF vblank_line(ly)
          THEN [RaiseIF(SetStatMode(g2, LCD_MODE_VBLANK), VBLANK_INTR)
                   EXCEPT !.gb_frame = TRUE, !.lcd_blank = FALSE,
                          !.vblank = TRUE]
        ELSE IF ly < LCD_HEIGHT
          THEN LET w == IF ly = 0
                          THEN [g2 EXCEPT !.WY = IO(g2, IO_WY), !.window_clear = 0]
                          ELSE g2
                   o == SetStatMode(w, LCD_MODE_OAM_SCAN)
               IN  IF And(IO(o, IO_STAT), STAT_MODE_2_INTR) # 0
                     THEN RaiseIF(o, LCDC_INTR) ELSE o
        ELSE g2

\* a new scanline that sets the coincidence bit and never clears it
lcd_new_line_sticky(g) ==
    LET ly == U8(IO(g, IO_LY) + 1)
        g1 == SetIO(g, IO_LY, ly)
        g2 == IF ly = IO(g1, IO_LYC)
                THEN LET c == SetIO(g1, IO_STAT, Or(IO(g1, IO_STAT), STAT_LYC_COINC))
                     IN  IF And(IO(c, IO_STAT), STAT_LYC_INTR) # 0
                           THEN RaiseIF(c, LCDC_INTR) ELSE c
                ELSE g1
    IN  IF vblank_line(ly)
          THEN LET v == [RaiseIF(SetStatMode(g2, LCD_MODE_VBLANK), VBLANK_INTR)
                            EXCEPT !.gb_frame = TRUE, !.lcd_blank = FALSE,
                                   !.vblank = TRUE]
               IN  IF And(IO(v, IO_STAT), STAT_MODE_1_INTR) # 0
                     THEN RaiseIF(v, LCDC_INTR) ELSE v
        ELSE IF ly < LCD_HEIGHT
          THEN LET w == IF ly = 0
                          THEN [g2 EXCEPT !.WY = IO(g2, IO_WY), !.window_clear = 0]
                          ELSE g2
                   o == SetStatMode(w, LCD_MODE_OAM_SCAN)
               IN  IF And(IO(o, IO_STAT), STAT_MODE_2_INTR) # 0
                     THEN RaiseIF(o, LCDC_INTR) ELSE o
        ELSE g2

\* "New Scanline": LY++, the LYC update, then VBlank entry or OAM scan
lcd_new_line(g) ==
    LET ly == U8(IO(g, IO_LY) + 1)
        g1 == SetIO(g, IO_LY, ly)
        g2 == IF ly = IO(g1, IO_LYC)
                THEN LET c == SetIO(g1, IO_STAT, Or(IO(g1, IO_STAT), STAT_LYC_COINC))
                     IN  IF And(IO(c, IO_STAT), STAT_LYC_INTR) # 0
                           THEN RaiseIF(c, LCDC_INTR) ELSE c
                ELSE SetIO(g1, IO_STAT, And(IO(g1, IO_STAT), 251))
    IN  IF vblank_line(ly)
          THEN LET v == [RaiseIF(SetStatMode(g2, LCD_MODE_VBLANK), VBLANK_INTR)
                            EXCEPT !.gb_frame = TRUE, !.lcd_blank = FALSE,
                                   !.vblank = TRUE]
               IN  IF And(IO(v, IO_STAT), STAT_MODE_1_INTR) # 0
                     THEN RaiseIF(v, LCDC_INTR) ELSE v
        ELSE IF ly < LCD_HEIGHT
          THEN LET w == IF ly = 0
                          THEN [g2 EXCEPT !.WY = IO(g2, IO_WY), !.window_clear = 0]
                          ELSE g2
                   o == SetStatMode(w, LCD_MODE_OAM_SCAN)
               IN  IF And(IO(o, IO_STAT), STAT_MODE_2_INTR) # 0
                     THEN RaiseIF(o, LCDC_INTR) ELSE o
        ELSE g2

\* LCD timing that draws the lines of the frame in which the LCD came on
lcd_timing_unblanked(g, cycles) ==
    LET count == g.lcd_count + cycles
        g1 == [g EXCEPT !.lcd_count = count]
    IN  IF count >= LCD_LINE_CYCLES
          THEN lcd_new_line([g1 EXCEPT !.lcd_count = lcd_line_end(count)])
        ELSE IF StatMode(g1) = LCD_MODE_LCD_DRAW /\ count >= LCD_MODE3_LCD_DRAW_END
          THEN LET d == gpu_draw_line(SetStatMode(g1, LCD_MODE_HBLANK))
               IN  IF And(IO(d, IO_STAT), STAT_MODE_0_INTR) # 0
                     THEN RaiseIF(d, LCDC_INTR) ELSE d
        ELSE IF StatMode(g1) = LCD_MODE_OAM_SCAN /\ oam_scan_end(count)
          THEN SetStatMode(g1, LCD_MODE_LCD_DRAW)
        ELSE g1

\* LCD timing
lcd_timing(g, cycles) ==
    LET count == g.lcd_count + cycles
        g1 == [g EXCEPT !.lcd_count = count]
    IN  IF count >= LCD_LINE_CYCLES
          THEN lcd_new_line([g1 EXCEPT !.lcd_count = lcd_line_end(count)])
        ELSE IF StatMode(g1) = LCD_MODE_LCD_DRAW /\ count >= LCD_MODE3_LCD_DRAW_END
          THEN LET h == SetStatMode(g1, LCD_MODE_HBLANK)
                   d == IF ~h.lcd_blank THEN gpu_draw_line(h) ELSE h
               IN  IF And(IO(d, IO_STAT), STAT_MODE_0_INTR) # 0
                     THEN RaiseIF(d, LCDC_INTR) ELSE d
        ELSE IF StatMode(g1) = LCD_MODE_OAM_SCAN /\ oam_scan_end(count)
          THEN SetStatMode(g1, LCD_MODE_LCD_DRAW)
        ELSE g1

\* entry of cpu_step: the records of the previous call are dropped and the
\* registers the interrupt stage may change are noted
step_entry(g) ==
    [g EXCEPT !.writes = <<>>, !.draws = <<>>, !.errors = <<>>,
              !.irq = -1, !.vblank = FALSE,
              !.pre = [pc |-> g.pc, sp |-> g.sp,
                       iflag |-> IO(g, IO_IF), ie |-> IO(g, IO_IE),
                       ime |-> g.gb_ime]]

\* the same registers as cpu_handle_interrupts leaves them
step_serviced(g) ==
    [g EXCEPT !.svc = [pc |-> g.pc, sp |-> g.sp, iflag |-> IO(g, IO_IF),
                       ime |-> g.gb_ime, writes |-> g.writes]]

\* a fetch that does not look the opcode up in OPCODE_CYCLES
step_fetch_free(g) ==
    [Adv(g, 1) EXCEPT !.opcode = mmu_read(g, g.pc), !.cycles = 0]

\* opcode = mmu_read(gb, pc++); cycles = OPCODE_CYCLES[opcode]
step_fetch(g) ==
    [Adv(g, 1) EXCEPT !.opcode = mmu_read(g, g.pc),
                      !.cycles = OPCODE_CYCLES[mmu_read(g, g.pc) + 1]]

step_execute(g) == execute(g, g.opcode)

\* the DIV and LCD timing at the end of cpu_step
step_timing(g) ==
    IF g.exited THEN g
    ELSE lcd_timing(div_timing(g, g.cycles), g.cycles)

\* cpu_step with the DIV and LCD timing run ahead of the instruction
cpu_step_tick_first(g) ==
    step_execute(step_timing(step_fetch(step_serviced(
        cpu_handle_interrupts(step_entry(g))))))

cpu_step(g) ==
    step_timing(step_execute(step_fetch(step_serviced(
        cpu_handle_interrupts(step_entry(g))))))

-----------------------------------------------------------------------------
(* rom.c : bootloader().  A ROM file is accepted when the Nintendo logo is *)
(* in place and the header names a supported cartridge; the cartridge      *)
(* parameters of the context come from header bytes 0x147 - 0x149.         *)

NintendoLogo ==
    << 206, 237, 102, 102, 204,  13,   0,  11,
         3, 115,   0, 131,   0,  12,   0,  13,
         0,   8,  17,  31, 136, 137,   0,  14,
       220, 204, 110, 230, 221, 221, 217, 153,
       187, 187, 103,  99, 110,  14, 236, 204,
       221, 220, 153, 159, 187, 185,  51,  62 >>

verify_nintendo_logo(image) ==
    \A i \in 1..Len(NintendoLogo) : Rd(image.data, 260 + i - 1) = NintendoLogo[i]

get_num_rom_banks(size_code) ==
    CASE size_code = 0 -> 2 [] size_code = 1 -> 4 [] size_code = 2 -> 8
      [] size_code = 3 -> 16 [] size_code = 4 -> 32 [] size_code = 5 -> 64
      [] size_code = 6 -> 128 [] size_code = 82 -> 72 [] size_code = 83 -> 80
      [] size_code = 84 -> 96 [] OTHER -> 0

get_num_ram_banks(size_code) ==
    CASE size_code = 0 -> 0 [] size_code = 1 -> 1 [] size_code = 2 -> 1
      [] size_code = 3 -> 4 [] size_code = 4 -> 16 [] size_code = 5 -> 8
      [] OTHER -> 0

get_mbc_type(cart_type) ==
    CASE cart_type = 0 -> 0
      [] cart_type \in {1, 2, 3} -> 1
      [] cart_type \in {8, 9} -> 0
      [] OTHER -> -1

has_cart_ram(cart_type) == cart_type \in {2, 3, 8, 9}

\* the cartridge parameters bootloader() derives from the header
cart_info(image) ==
    LET cart_type == Rd(image.data, 327)
        num_ram_banks == get_num_ram_banks(Rd(image.data, 329))
    IN  [ mbc |-> get_mbc_type(cart_type),
          cart_ram |-> BoolBit(has_cart_ram(cart_type)),
          num_rom_banks |-> get_num_rom_banks(Rd(image.data, 328)),
          num_ram_banks |-> num_ram_banks,
          cram_size |-> IF has_cart_ram(cart_type) /\ num_ram_banks > 0
                          THEN num_ram_banks * CRAM_BANK_SIZE ELSE 0 ]

\* bootloader() returns a context (rather than NULL) for this file
bootloader_accepts(image) ==
    /\ verify_nintendo_logo(image)
    /\ Rd(image.data, 326) # 3
    /\ cart_info(image).num_rom_banks # 0
    /\ cart_info(image).mbc \in {0, 1}

-----------------------------------------------------------------------------
(* ROM files used as inputs.  Every file carries the entry point           *)
(* NOP; JP 0x0150 at 0x0100, the logo at 0x0104 and a zero header (ROM     *)
(* only, 32 KiB, no cartridge RAM); the program starts at 0x0150.          *)

RECURSIVE Rep(_, _)
Rep(seq, n) == IF n = 0 THEN <<>> ELSE seq \o Rep(seq, n - 1)

\* the bytes of seq placed from address base on, as a sparse array
Place(base, seq) ==
    [a \in {base + i - 1 : i \in {j \in DOMAIN seq : seq[j] # 0}}
        |-> seq[a - base + 1]]

Image(code) ==
    [ size |-> 2 * ROM_BANK_SIZE,
      data |-> Place(256, <<0, 195, 80, 1>> \o NintendoLogo)
                 @@ Place(336, code) ]

\* Bounds of the exploration
LinesBurnt == 250
WindowLines == 156
OffNops == 200
CallLoops == 200
FrameSteps == 24300
ToggleSteps == 4000
CallSteps == 820
IrqSteps == 13
OpSteps == 4

\* 22 x LD (0xC000),SP ; DEC B ; JR NZ,-69 : one pass takes 456 cycles
BurnLine == Rep(<<8, 0, 192>>, 22) \o <<5, 32, 187>>

\* LD B,n ; burn n scanlines ; XOR A ; LDH (0x0F),A ; then NOPs (ROM zeros)
FrameProg == <<6, LinesBurnt>> \o BurnLine \o <<175, 224, 15>>

\* LCDC := 0x11 (LCD off, other bits set) ; NOPs ; LCDC := 0x91 (LCD on) ;
\* NOP ; LDH (0x04),A (0x91 written to DIV) ; LD B,n ; burn n scanlines
ToggleProg ==
    <<62, 17, 224, 64>> \o Rep(<<0>>, OffNops)
        \o <<62, 145, 224, 64, 0, 224, 4, 6, WindowLines>> \o BurnLine

\* LD B,n ; L: CALL sub ; DEC B ; JR NZ,L ; NOP ; NOP ; sub: RET
CallProg == <<6, CallLoops, 205, 90, 1, 5, 32, 250, 0, 0, 201>>

\* DI ; LD SP,spv ; IE := iev ; IF := ifv ; HALT ; EI ; NOPs
IrqProg(spv, iev, ifv) ==
    <<243, 49, spv % 256, spv \div 256, 62, iev, 224, 255, 62, ifv, 224, 15,
      118, 251>>

IrqSPs == {65534, 65296, 65297, 49153, 1, 0}
IrqIEs == {0, 1, 2, 4, 8, 16, 26, 31, 255}
IrqIFs == {0, 1, 2, 4, 8, 16, 12, 19, 31}

\* one opcode with two operand bytes
OpProg(b, operands) == <<b>> \o operands
OpOperands == {<<0, 0>>, <<5, 192>>}

\* opcodes run by a host that installs no error hook (gb_error == NULL)
NoHookOps == {0, 118, 211, 237, 253}

\* hook: the host installs an error hook (bootloader's, which exits)
Inputs ==
    {[image |-> Image(FrameProg), budget |-> FrameSteps, hook |-> TRUE],
     [image |-> Image(ToggleProg), budget |-> ToggleSteps, hook |-> TRUE],
     [image |-> Image(CallProg), budget |-> CallSteps, hook |-> TRUE]}
    \cup {[image |-> Image(IrqProg(spv, iev, ifv)), budget |-> IrqSteps,
           hook |-> TRUE] :
             spv \in IrqSPs, iev \in IrqIEs, ifv \in IrqIFs}
    \cup {[image |-> Image(OpProg(b, o)), budget |-> OpSteps, hook |-> TRUE] :
             b \in 0..255, o \in OpOperands}
    \cup {[image |-> Image(OpProg(b, o)), budget |-> OpSteps, hook |-> FALSE] :
             b \in NoHookOps, o \in OpOperands}

-----------------------------------------------------------------------------
(* Observers (history only, never read by the program)                     *)

FrameCycles == LCD_VERT_LINES * LCD_LINE_CYCLES
VisibleCycles == LCD_HEIGHT * LCD_LINE_CYCLES

LcdOn(g) == And(IO(g, IO_LCDC), LCDC_ENABLE) # 0
Pending(g) == And(And(IO(g, IO_IF), IO(g, IO_IE)), 31)
WroteTo(g, addr) == \E i \in DOMAIN g.writes : g.writes[i][1] = addr

\* start of the NOP scenario: LCD on, LY = 0, mode 2, lcd_count = 0
ScenStart(g) ==
    /\ LcdOn(g) /\ IO(g, IO_LY) = 0
    /\ StatMode(g) = LCD_MODE_OAM_SCAN /\ g.lcd_count = 0

\* start of a frame window: LCD on, LY = 0, mode 2
WinStart(g) ==
    LcdOn(g) /\ IO(g, IO_LY) = 0 /\ StatMode(g) = LCD_MODE_OAM_SCAN

\* div_on: DIV (0xFF04) has been written; div_cyc: the cycles accounted
\* since, those of the writing instruction included
ObsInit ==
    [ scen_on |-> FALSE, scen_cyc |-> 0, scen_draws |-> 0, scen_if0 |-> 0,
      win_on |-> FALSE, win_cyc |-> 0, win_edges |-> 0,
      div_on |-> FALSE, div_cyc |-> 0 ]

ObserveDiv(o, g2) ==
    IF g2.exited THEN o
    ELSE IF WroteTo(g2, 65284)
      THEN [o EXCEPT !.div_on = TRUE, !.div_cyc = g2.cycles]
    ELSE IF o.div_on THEN [o EXCEPT !.div_cyc = o.div_cyc + g2.cycles]
    ELSE o

\* o after the step that took context g to g2: the LCD scenarios
ObserveLcd(o, g, g2) ==
    LET scen ==
            IF o.scen_on /\ g2.opcode = 0 /\ g2.irq = -1
                 /\ o.scen_cyc < VisibleCycles
              THEN [o EXCEPT !.scen_cyc = o.scen_cyc + g2.cycles,
                             !.scen_draws =
                                 (IF IO(g2, IO_LY) # IO(g, IO_LY)
                                    THEN 0 ELSE o.scen_draws) + Len(g2.draws)]
            ELSE IF ScenStart(g2)
              THEN [o EXCEPT !.scen_on = TRUE, !.scen_cyc = 0,
                             !.scen_draws = 0,
                             !.scen_if0 = IO(g2, IO_IF) % 2]
            ELSE [o EXCEPT !.scen_on = FALSE, !.scen_cyc = 0,
                           !.scen_draws = 0, !.scen_if0 = 0]
    IN  IF o.win_on /\ o.win_cyc < FrameCycles
             /\ ~WroteTo(g2, 65344) /\ LcdOn(g2) /\ ~g2.exited
          THEN [scen EXCEPT !.win_cyc = o.win_cyc + g2.cycles,
                            !.win_edges = o.win_edges + BoolBit(g2.vblank)]
        ELSE IF WinStart(g2) /\ ~g2.exited
          THEN [scen EXCEPT !.win_on = TRUE, !.win_cyc = 0, !.win_edges = 0]
        ELSE [scen EXCEPT !.win_on = FALSE, !.win_cyc = 0, !.win_edges = 0]

\* o after the step that took context g to g2
Observe(o, g, g2) == ObserveDiv(ObserveLcd(o, g, g2), g2)

-----------------------------------------------------------------------------
(* main.c : the emulator.  main() boots the ROM file and run_frame() steps *)
(* the CPU until the frame flag is raised; nsteps is the number of steps   *)
(* still to be explored for the ROM file chosen.                           *)

Init ==
    \E p \in Inputs :
        /\ bootloader_accepts(p.image)
        /\ rom = p.image
        /\ nsteps = p.budget
        /\ gb = [main_init(cart_info(p.image)) EXCEPT !.gb_error = p.hook]
        /\ obs = ObsInit

\* while (!gb_frame) cpu_step(gb)
Step ==
    /\ ~gb.gb_frame
    /\ ~gb.exited
    /\ nsteps > 0
    /\ gb' = cpu_step(gb)
    /\ nsteps' = nsteps - 1
    /\ obs' = Observe(obs, gb, gb')
    /\ UNCHANGED rom

\* the next call of run_frame(): gb_frame = 0
run_frame ==
    /\ gb.gb_frame
    /\ ~gb.exited
    /\ gb' = [gb EXCEPT !.gb_frame = FALSE]
    /\ UNCHANGED <<rom, nsteps, obs>>

Next == Step \/ run_frame

Spec == Init /\ [][Next]_vars

-----------------------------------------------------------------------------
(* tests/bootloader_test.c, tests/cpu_test.c : hosts that call mmu_write   *)
(* and mmu_read themselves, on the context bootloader() returns for a file *)
(* made by create_test_rom(), or on a context of their own after a number  *)
(* of cpu_step calls.  Each run keeps to the addresses of one region (its  *)
(* profile).                                                               *)

\* create_test_rom(filename, rom_size, ram_size, cart_type): a 32 KiB file
\* with LD A,0x42 ; HALT at the entry point and the title "TEST ROM"
HeaderImage(cart_type, rom_size, ram_size) ==
    [ size |-> 2 * ROM_BANK_SIZE,
      data |-> Place(256, <<62, 66, 118, 0>> \o NintendoLogo)
                 @@ Place(308, <<84, 69, 83, 84, 32, 82, 79, 77>>)
                 @@ Place(327, <<cart_type, rom_size, ram_size>>) ]

\* the context bootloader() returns
bootloader(image) == cpu_init(mmu_init(gb_alloc(cart_info(image))))

\* tests/cpu_test.c: test_rom[0x8000] left as it is (all NOP) and a struct
\* gb_s = {0} given the hooks, then mmu_init and cpu_init
test_rom == [size |-> 2 * ROM_BANK_SIZE, data |-> Zeroed]

test_context ==
    cpu_init(mmu_init(gb_alloc([mbc |-> 0, cart_ram |-> 0, num_rom_banks |-> 1,
                                num_ram_banks |-> 0,
                                cram_size |-> CRAM_BANK_SIZE])))

\* calls of cpu_step that host makes before it turns to the LCD registers
WarmupSteps == 120

\* header bytes <<cart_type, rom_size, ram_size>> of the files tried
RomCarts == {<<0, 0, 0>>, <<1, 0, 0>>, <<1, 3, 0>>, <<1, 5, 0>>, <<1, 6, 0>>,
             <<1, 82, 0>>}
RamCarts == {<<0, 0, 0>>, <<1, 0, 0>>, <<2, 1, 2>>, <<3, 4, 3>>, <<2, 0, 0>>,
             <<8, 0, 2>>}
PlainProfiles == {"vram", "wram", "oam", "io_lcd", "io_win", "io_hi"}

FileCase(c, prof) ==
    [image |-> HeaderImage(c[1], c[2], c[3]), ctx |-> "bootloader",
     prof |-> prof, steps |-> 0, dma |-> 0]

MmuCases ==
    {FileCase(c, "rom") : c \in RomCarts}
    \cup {FileCase(c, "cram") : c \in RamCarts}
    \cup {FileCase(<<0, 0, 0>>, p) : p \in PlainProfiles}
    \cup {[image |-> test_rom, ctx |-> "test", prof |-> "io_lcd",
           steps |-> WarmupSteps, dma |-> 0]}
    \cup {[FileCase(<<0, 0, 0>>, "dma") EXCEPT !.dma = n] : n \in 0..255}

\* the addresses a run of the profile reads and writes
ProfAddrs(prof) ==
    CASE prof = "rom" -> {0, 8192, 16383, 16384, 24576, 32767}
      [] prof = "cram" -> {0, 16384, 24576, 40960}
      [] prof = "vram" -> {32768, 36864, 40959}
      [] prof = "wram" -> {49152, 53248, 57343}
      [] prof = "oam" -> {65024, 65183}
      [] prof = "dma" -> {49152, 65350}
      [] prof = "io_lcd" -> {65344, 65345, 65346, 65348}
      [] prof = "io_win" -> {65349, 65354, 65355}
      [] OTHER -> {65347, 65408, 65535}

InCartRam(addr) == addr >= 40960 /\ addr < 49152

\* the bytes it writes there
ProfVals(prof, addr) ==
    IF InCartRam(addr) THEN {0, 90}
    ELSE IF addr >= 32768 THEN {0, 90, 165}
    ELSE IF prof = "rom" THEN {0, 1, 2, 8, 10, 32}
    ELSE {0, 1, 10}

\* what the host has seen: the last call (kind, addr, the byte written or
\* returned), the offset it passed to the ROM hook (-1: hook not called),
\* whether it called a cartridge RAM hook, the byte it writes to the DMA
\* register in the "dma" profile, the RAM-enable latch as the
\* writes to 0x0000 - 0x1FFF define it, and for each data address the last
\* byte stored there (-1: not known since a write to 0x4000 - 0x7FFF)
MmuObsInit(prof) ==
    [ prof |-> prof, dma |-> 0, kind |-> "boot", addr |-> 0, val |-> 0,
      rom_off |-> -1, ram_hook |-> FALSE, latch |-> FALSE, dirty |-> FALSE,
      shadow |-> [a \in {x \in ProfAddrs(prof) : x >= 32768 /\ x < 65280}
                     |-> 0] ]

ShadowAfterWrite(o, g, addr, val) ==
    IF addr < 16384 THEN o.shadow
    ELSE IF addr < 32768
      THEN IF o.dirty THEN [a \in DOMAIN o.shadow |-> -1] ELSE o.shadow
    ELSE IF addr \notin DOMAIN o.shadow THEN o.shadow
    ELSE IF InCartRam(addr) /\ cart_ram_closed(g) THEN o.shadow
    ELSE [o.shadow EXCEPT ![addr] = val]

ObserveWrite(o, g, addr, val) ==
    [o EXCEPT !.kind = "write", !.addr = addr, !.val = val, !.rom_off = -1,
              !.ram_hook = InCartRam(addr) /\ cart_ram_open(g),
              !.latch = IF addr < 8192 THEN val % 16 = 10 ELSE o.latch,
              !.dirty = o.dirty \/ (InCartRam(addr) /\ cart_ram_open(g)),
              !.shadow = ShadowAfterWrite(o, g, addr, val)]

ObserveRead(o, g, addr) ==
    [o EXCEPT !.kind = "read", !.addr = addr, !.val = mmu_read(g, addr),
              !.rom_off = IF addr < 32768 THEN rom_offset(g, addr) ELSE -1,
              !.ram_hook = InCartRam(addr) /\ cart_ram_open(g)]

MmuInit ==
    \E c \in MmuCases :
        /\ c.ctx = "bootloader" => bootloader_accepts(c.image)
        /\ rom = c.image
        /\ nsteps = c.steps
        /\ gb = IF c.ctx = "bootloader" THEN bootloader(rom) ELSE test_context
        /\ obs = [MmuObsInit(c.prof) EXCEPT !.dma = c.dma]

\* cpu_step(gb), as test_memory_access calls it
MmuStep ==
    /\ nsteps > 0
    /\ ~gb.exited
    /\ gb' = [cpu_step(gb) EXCEPT !.writes = <<>>]
    /\ nsteps' = nsteps - 1
    /\ UNCHANGED <<rom, obs>>

\* mmu_write(gb, addr, val)
MmuWrite ==
    \E addr \in ProfAddrs(obs.prof) :
        \E val \in IF addr = 65350 THEN {obs.dma}
                    ELSE ProfVals(obs.prof, addr) :
            /\ nsteps = 0
            /\ gb' = [mmu_write(gb, addr, val) EXCEPT !.writes = <<>>]
            /\ obs' = ObserveWrite(obs, gb, addr, val)
            /\ UNCHANGED <<rom, nsteps>>

\* mmu_read(gb, addr)
MmuRead ==
    \E addr \in ProfAddrs(obs.prof) :
        /\ nsteps = 0
        /\ obs' = ObserveRead(obs, gb, addr)
        /\ UNCHANGED <<gb, rom, nsteps>>

MmuNext == MmuStep \/ MmuWrite \/ MmuRead

MmuSpec == MmuInit /\ [][MmuNext]_vars

-----------------------------------------------------------------------------
(* tests/cpu_test.c : the tests that write a program into test_rom from    *)
(* 0x0100 on, call mmu_init and cpu_init on a zeroed context and then call *)
(* cpu_step a number of times.  A test is a record: its name, its program, *)
(* the number of cpu_step calls, and the values it was made from (v, w,    *)
(* op), which the host keeps to judge the outcome.                         *)

ProgramRom(prog) == [size |-> 2 * ROM_BANK_SIZE, data |-> Place(256, prog)]

TestCase(name, prog, steps, v, w, op) ==
    [name |-> name, prog |-> prog, steps |-> steps, v |-> v, w |-> w,
     op |-> op]

Lo(x) == x % 256
Hi(x) == x \div 256

\* test_basic_instructions: LD A,0x42 ; INC A ; DEC A ; DEC A ; HALT
BasicProg == <<62, 66, 60, 61, 61, 118>>

\* test_jumps: LD A,0 ; JP Z,0x0106 ; INC A ; HALT (Z is still set from
\* cpu_init), and the same after OR 1 (Z clear)
JumpProg(first) == first \o <<202, 6, 1, 60, 118>>

\* LD BC,v ; PUSH BC ; POP AF : A and the flags taken from the stack
LoadAF(v) == <<1, Lo(v), Hi(v), 197, 241>>

\* LD SP,spv, left out where spv is the value cpu_init gives
LoadSP(spv) == IF spv = 65534 THEN <<>> ELSE <<49, Lo(spv), Hi(spv)>>
LoadSPSteps(spv) == IF spv = 65534 THEN 0 ELSE 1

\* flag bytes popped into F (0x12 is popped into A with them)
FlagBytes == {0, 15, 16, 47, 90, 128, 165, 240, 255}

\* POP AF of the byte fb ; PUSH AF ; then opcode b, or CB cb
FlagProg(fb, b) == LoadAF(4608 + fb) \o <<245>> \o OpProg(b, <<5, 192>>)

\* test_stack_operations with the pair rr (0 BC, 1 DE, 2 HL), the value v,
\* the stack at spv, and rr overwritten with w between PUSH and POP or not
StackSPs == {65534, 53248, 49154, 57346}
PairVals == {0, 4660, 65535, 255, 42480, 23055}
PairProg(spv, rr, v, clobber) ==
    LoadSP(spv) \o <<1 + 16 * rr, Lo(v), Hi(v), 197 + 16 * rr>>
        \o (IF clobber THEN <<1 + 16 * rr, 0, 0>> ELSE <<>>)
        \o <<193 + 16 * rr>>

\* the same for AF: AF loaded from the stack, PUSH AF, XOR A or nothing,
\* POP AF
AFProg(spv, v, clobber) ==
    LoadSP(spv) \o LoadAF(v) \o <<245>>
        \o (IF clobber THEN <<175>> ELSE <<>>) \o <<241>>

StackCases ==
    {TestCase("stack", PairProg(spv, rr, v, cl),
              LoadSPSteps(spv) + 3 + BoolBit(cl), v, spv, rr) :
        spv \in StackSPs, rr \in 0..2, v \in PairVals, cl \in BOOLEAN}
    \cup {TestCase("stack", AFProg(spv, v, cl),
                   LoadSPSteps(spv) + 5 + BoolBit(cl), v, spv, 3) :
            spv \in StackSPs, v \in PairVals, cl \in BOOLEAN}

\* the conditional forms of JR, RET, JP and CALL
CondOps == {32, 40, 48, 56, 192, 200, 208, 216, 194, 202, 210, 218,
            196, 204, 212, 220}
BranchFlags == {0, 16, 128, 144, 96, 240}
Targets == {262, 49157, 506}

\* flags := fb ; LD BC,target ; PUSH BC ; the conditional with the operand
\* bytes of target
BranchProg(fb, op, target) ==
    LoadAF(fb) \o <<1, Lo(target), Hi(target), 197, op, Lo(target), Hi(target)>>

\* the 8-bit additions, subtractions and compares: operand B, operand A,
\* immediate operand
AluVals == {0, 1, 15, 16, 127, 128, 240, 255}
AluRegOps == {128, 136, 144, 152, 184}
AluSelfOps == {135, 143, 151, 159, 191}
AluImmOps == {198, 206, 214, 222, 254}

\* LD A,a ; LD B,src ; SCF ; CCF or NOP ; the operation (operand byte src)
AluProg(a, src, cin, op) ==
    <<62, a, 6, src, 55, IF cin = 1 THEN 0 ELSE 63, op, src>>

\* LD A,a ; ADD A,A ; DAA
DaaVals == AluVals \cup {54, 60, 153}
DaaProg(a) == <<62, a, 135, 39>>

TestCases ==
    {TestCase("basic", BasicProg, 5, 0, 0, 0),
     TestCase("jump", JumpProg(<<62, 0>>), 2, 1, 0, 202),
     TestCase("jump", JumpProg(<<246, 1>>), 2, 0, 0, 202)}
    \cup {TestCase("flags", FlagProg(fb, b), 6, fb, 0, b) :
            fb \in FlagBytes, b \in 0..255}
    \cup {TestCase("flags", LoadAF(4608 + fb) \o <<245, 203, cb>>,
                   6, fb, cb, 203) :
            fb \in {15, 240}, cb \in 0..255}
    \cup StackCases
    \cup {TestCase("branch", BranchProg(fb, op, t), 7, fb, t, op) :
            fb \in BranchFlags, op \in CondOps, t \in Targets}
    \cup {TestCase("alu", AluProg(a, src, cin, op), 5, a, src, op) :
            a \in AluVals, src \in AluVals, cin \in 0..1,
            op \in AluRegOps \cup AluSelfOps \cup AluImmOps}
    \cup {TestCase("daa", DaaProg(a), 3, a, 0, 39) : a \in DaaVals}

TestInit ==
    \E c \in TestCases :
        /\ rom = ProgramRom(c.prog)
        /\ nsteps = c.steps
        /\ gb = test_context
        /\ obs = [name |-> c.name, v |-> c.v, w |-> c.w, op |-> c.op]

\* cpu_step(&gb); test_basic_instructions stops calling once gb_halt is set
TestStep ==
    /\ nsteps > 0
    /\ ~gb.exited
    /\ obs.name = "basic" => ~gb.gb_halt
    /\ gb' = cpu_step(gb)
    /\ nsteps' = nsteps - 1
    /\ UNCHANGED <<rom, obs>>

TestNext == TestStep

TestSpec == TestInit /\ [][TestNext]_vars

-----------------------------------------------------------------------------
(* Properties                                                              *)

\* a call of cpu_step has been made
Stepped == gb.opcode # -1

\* C1: after every call of cpu_step, whatever the opcode stream (DIV and
\* LCDC writes included), div_count < 256 and lcd_count < 456.
C1_CycleBudget ==
    gb.div_count < DIV_CYCLES /\ gb.lcd_count < LCD_LINE_CYCLES

\* a step in which both counters wrapped
C1_Witness ==
    Stepped /\ gb.cycles > 0 /\ gb.lcd_count < gb.cycles
            /\ gb.div_count < gb.cycles /\ C1_CycleBudget

\* C2: from LCD on, LY = 0, mode 2, lcd_count = 0, under 4-cycle NOPs: on
\* each visible line the mode is 2 below 80 line cycles, 3 from the step that
\* reaches 80, 0 from the step that reaches 252, and that step (and no other
\* of the line) invokes the scanline hook with the line number; at 456 the
\* count wraps and LY advances by one; after 144*456 cycles LY = 144, the
\* mode is VBlank and IF bit 0 is set.
C2_NopScanlines ==
    obs.scen_on =>
        LET line == obs.scen_cyc \div LCD_LINE_CYCLES
            pos == obs.scen_cyc % LCD_LINE_CYCLES
        IN  /\ gb.lcd_count = pos
            /\ IO(gb, IO_LY) = line
            /\ line < LCD_HEIGHT =>
                  /\ StatMode(gb) =
                        IF pos < LCD_MODE2_OAM_SCAN_END THEN LCD_MODE_OAM_SCAN
                        ELSE IF pos < LCD_MODE3_LCD_DRAW_END THEN LCD_MODE_LCD_DRAW
                        ELSE LCD_MODE_HBLANK
                  /\ gb.draws =
                        IF pos = LCD_MODE3_LCD_DRAW_END THEN <<line>> ELSE <<>>
                  /\ obs.scen_draws =
                        IF pos >= LCD_MODE3_LCD_DRAW_END THEN 1 ELSE 0
            /\ line = LCD_HEIGHT =>
                  /\ pos = 0
                  /\ StatMode(gb) = LCD_MODE_VBLANK
                  /\ IO(gb, IO_IF) % 2 = 1
                  /\ gb.draws = <<>>

\* the scenario ran its 144 lines, from a state in which IF bit 0 was clear
C2_Witness ==
    /\ obs.scen_on /\ obs.scen_cyc = VisibleCycles /\ obs.scen_if0 = 0
    /\ IO(gb, IO_LY) = LCD_HEIGHT /\ IO(gb, IO_IF) % 2 = 1

\* C3: a window of 70224 cycles that starts at LY = 0, mode 2 with the LCD
\* on, and has no LCDC write, contains exactly one frame-complete edge.
C3_FrameCadence ==
    obs.win_on =>
        /\ obs.win_edges <= 1
        /\ obs.win_cyc >= FrameCycles => obs.win_edges = 1

\* a window ran to its end
C3_Witness ==
    obs.win_on /\ obs.win_cyc >= FrameCycles /\ obs.win_edges = 1

\* C4: in every reachable state LY is in 0..153 (at the new line where LY
\* would become 154 it is set to 0).
C4_LYRange == IO(gb, IO_LY) \in 0..(LCD_VERT_LINES - 1)

\* C5: in every state after a step with LCDC bit 7 clear, LY = 0,
\* lcd_count = 0 and the STAT mode is HBlank.
C5_DisabledRest ==
    (Stepped /\ ~LcdOn(gb)) =>
        /\ IO(gb, IO_LY) = 0
        /\ gb.lcd_count = 0
        /\ StatMode(gb) = LCD_MODE_HBLANK

\* C6: while LCDC bit 7 is clear, whatever the other LCDC bits, no step
\* invokes the scanline hook.
C6_NoDrawWhileOff == (Stepped /\ ~LcdOn(gb)) => gb.draws = <<>>

\* the interrupts pending at the entry of the step, and the lowest of them
PrePending == And(And(gb.pre.iflag, gb.pre.ie), 31)
LowestBit(x) ==
    CHOOSE b \in {1, 2, 4, 8, 16} :
        /\ And(x, b) # 0
        /\ \A c \in {1, 2, 4, 8, 16} : c < b => And(x, c) = 0
VectorOf(b) == CASE b = 1 -> 64 [] b = 2 -> 72 [] b = 4 -> 80
                 [] b = 8 -> 88 [] OTHER -> 96

\* the two bytes of the old PC as the service stage stores them
PushedPC ==
    << <<U16(gb.pre.sp + 65535), gb.pre.pc \div 256>>,
       <<U16(gb.pre.sp + 65534), gb.pre.pc % 256>> >>

\* the push stores a byte of the old PC into the IF register itself
PushOnIF == \E i \in 1..2 : PushedPC[i][1] = 65280 + IO_IF

\* the service stage of the last step, with IF judged in the steps that
\* `judged` admits
ServiceStage(judged) ==
    Stepped =>
        /\ (gb.irq # -1) <=> (gb.pre.ime /\ PrePending # 0)
        /\ gb.irq # -1 =>
              /\ ~gb.svc.ime
              /\ gb.svc.writes = PushedPC
              /\ gb.svc.sp = U16(gb.pre.sp + 65534)
              /\ gb.svc.pc = VectorOf(LowestBit(PrePending))
              /\ gb.irq = gb.svc.pc
              /\ judged => gb.svc.iflag = gb.pre.iflag - LowestBit(PrePending)
        /\ gb.irq = -1 =>
              /\ gb.svc.pc = gb.pre.pc
              /\ gb.svc.sp = gb.pre.sp
              /\ gb.svc.iflag = gb.pre.iflag
              /\ gb.svc.ime = gb.pre.ime
              /\ gb.svc.writes = <<>>

\* C7 as stated: an interrupt is serviced iff IME = 1 and IF & IE & 0x1F is
\* not 0; the service clears IME, pushes the old PC (high byte at SP-1, low
\* at SP-2), lowers SP by 2, sets PC to the vector of the lowest pending
\* enabled bit and clears exactly that bit of IF; otherwise the stage leaves
\* PC, SP, IF and IME alone.
C7_ServiceAsStated == ServiceStage(TRUE)

\* C7 amended: the same, with IF = old IF minus the serviced bit required
\* only when neither pushed byte is stored at 0xFF0F.
C7_Service == ServiceStage(~PushOnIF)

\* the timer interrupt serviced with the serial one pending behind it
C7_Witness ==
    /\ Stepped /\ gb.irq = 80 /\ And(gb.pre.iflag, 31) = 12
    /\ And(gb.svc.iflag, 31) = 8 /\ ~PushOnIF

\* a step of cpu_step is being taken
IsStep == nsteps' # nsteps

\* C8: with the halt flag set and IF & IE & 0x1F = 0, a step changes none of
\* PC, SP, A, F, BC, DE, HL and writes no memory.
C8_HaltFreezes ==
    [][(gb.gb_halt /\ Pending(gb) = 0 /\ IsStep) =>
          /\ gb'.pc = gb.pc /\ gb'.sp = gb.sp
          /\ gb'.a = gb.a /\ gb'.f = gb.f
          /\ BC(gb') = BC(gb) /\ DE(gb') = DE(gb) /\ HL(gb') = HL(gb)
          /\ gb'.writes = <<>>]_vars

\* C9: with the halt flag set and an interrupt pending, the next step clears
\* the halt flag.
C9_HaltWakes ==
    [][(gb.gb_halt /\ Pending(gb) # 0 /\ IsStep) => ~gb'.gb_halt]_vars

InvalidOpcodes == {211, 219, 221, 227, 228, 235, 236, 237, 244, 252, 253}

\* C10: a step that fetches one of the eleven undefined opcodes calls the
\* error hook (when the host installed one) exactly once, with InvalidOpcode
\* and the address of the opcode byte; a step that fetches any other opcode
\* does not call it.
C10_InvalidOpcode ==
    (Stepped /\ gb.gb_error) =>
        gb.errors = IF gb.opcode \in InvalidOpcodes
                      THEN << <<GB_ERROR_INVALID_OPCODE, gb.svc.pc>> >>
                      ELSE <<>>

\* 0xED fetched at 0x0150 and reported there
C10_Witness ==
    gb.opcode = 237 /\ gb.errors = << <<GB_ERROR_INVALID_OPCODE, 336>> >>

\* C11: once a step has fetched an undefined opcode, hook or no hook, no
\* later step fetches or executes an instruction or changes CPU, timing or
\* PPU state.
C11_ErrorIsFatal ==
    [][(gb.opcode \in InvalidOpcodes) =>
          /\ gb'.pc = gb.pc /\ gb'.sp = gb.sp /\ gb'.a = gb.a /\ gb'.f = gb.f
          /\ BC(gb') = BC(gb) /\ DE(gb') = DE(gb) /\ HL(gb') = HL(gb)
          /\ gb'.div_count = gb.div_count /\ gb'.lcd_count = gb.lcd_count
          /\ gb'.hram_io = gb.hram_io]_vars

\* rom_read_hook's view of the cartridge: the bank count of the header
NumRomBanks == get_num_rom_banks(Rd(rom.data, 328))

RomRead == obs.kind = "read" /\ obs.addr < 32768
WindowRead == RomRead /\ obs.addr >= 16384

\* C12: on an MBC1 cartridge a read of 0x4000 - 0x7FFF never passes the ROM
\* hook an offset below 0x4000, whatever was written to 0x0000 - 0x7FFF.
C12_WindowNeverBank0 ==
    (gb.mbc = 1 /\ WindowRead) => obs.rom_off >= 16384

BankWrite == obs'.kind = "write" /\ obs'.addr >= 8192 /\ obs'.addr < 16384

LowBitsOr1(n) == IF n % 32 = 0 THEN 1 ELSE n % 32

\* C13: on an MBC1 cartridge a write of N to 0x2000 - 0x3FFF leaves the bank
\* register at ((N & 0x1F) or 1) | (old bits 5-6), masked to rom_banks - 1,
\* so that writing 0 with bits 5-6 clear selects bank 1; without an MBC the
\* write changes no banking state.
C13_BankLowWrite ==
    [][BankWrite =>
         /\ gb.mbc = 1 =>
              /\ gb'.selected_rom_bank =
                     And(Or(LowBitsOr1(obs'.val), And(gb.selected_rom_bank, 96)),
                         NumRomBanks - 1)
              /\ (obs'.val = 0 /\ gb.selected_rom_bank < 32)
                     => gb'.selected_rom_bank = 1
         /\ gb.mbc # 1 =>
              /\ gb'.selected_rom_bank = gb.selected_rom_bank
              /\ gb'.cart_ram_bank = gb.cart_ram_bank
              /\ gb'.cart_mode_select = gb.cart_mode_select
              /\ gb'.enable_cart_ram = gb.enable_cart_ram]_vars

C13_Witness ==
    /\ obs.kind = "write" /\ obs.addr = 8192 /\ obs.val = 0
    /\ gb.mbc = 1 /\ gb.selected_rom_bank = 33

RomOffsetFor(bank) ==
    /\ obs.rom_off >= 0 /\ obs.rom_off < NumRomBanks * ROM_BANK_SIZE
    /\ obs.addr < 16384 => obs.rom_off = obs.addr
    /\ obs.addr >= 16384 => obs.rom_off = obs.addr + (bank - 1) * ROM_BANK_SIZE

\* C14 as stated: every ROM hook call of mmu_read passes an offset within the
\* ROM, addr itself below 0x4000 and addr + (bank-1)*0x4000 above, bank being
\* the selected bank in both MBC1 modes.
C14_RomOffsetAsStated == RomRead => RomOffsetFor(gb.selected_rom_bank)

\* the bank the window shows: in MBC1 mode 1 only bits 0-4 of the register
WindowBank ==
    IF gb.mbc = 1 /\ gb.cart_mode_select # 0
      THEN gb.selected_rom_bank % 32
      ELSE gb.selected_rom_bank

\* C14: every ROM hook call of mmu_read passes an offset within the ROM,
\* addr itself below 0x4000 and addr + (bank-1)*0x4000 above, bank being the
\* selected bank in mode 0 and its low 5 bits in MBC1 mode 1.
C14_RomOffset == RomRead => RomOffsetFor(WindowBank)

C14_Witness ==
    /\ obs.kind = "read" /\ obs.addr = 32767 /\ gb.mbc = 1
    /\ gb.cart_mode_select = 1 /\ gb.selected_rom_bank = 33
    /\ obs.rom_off = 32767

CartRamAccess == obs.kind \in {"read", "write"} /\ InCartRam(obs.addr)

\* C15: cartridge RAM is enabled iff the low nibble of the last write to
\* 0x0000 - 0x1FFF was 0xA (disabled before any); while it is disabled or
\* the cartridge has no RAM, an access to 0xA000 - 0xBFFF calls no cartridge
\* RAM hook and a read there returns 0xFF.
C15_RamEnableLatch ==
    /\ gb.cart_ram = 1 => ((gb.enable_cart_ram = 1) <=> obs.latch)
    /\ (CartRamAccess /\ gb.cart_ram = 1) => (obs.ram_hook <=> obs.latch)
    /\ (CartRamAccess /\ ~(obs.latch /\ gb.cart_ram = 1)) =>
           /\ ~obs.ram_hook
           /\ obs.kind = "read" => obs.val = 255

\* a read of a data address whose last stored byte the host knows; in
\* cartridge RAM only while the RAM is enabled and present
KnownRead ==
    /\ obs.kind = "read" /\ obs.addr \in DOMAIN obs.shadow
    /\ obs.shadow[obs.addr] # -1
    /\ InCartRam(obs.addr) => (cart_ram_open(gb) /\ gb.cram_size > 0)

\* C16: in VRAM, WRAM, OAM and enabled cartridge RAM, mmu_read(addr) returns
\* the last byte written to addr (0 before any write), whatever was written
\* to other addresses of the range.
C16_ReadBack == KnownRead => obs.val = obs.shadow[obs.addr]

C16_Witness ==
    /\ obs.kind = "read" /\ obs.addr = 53248 /\ obs.val = 90
    /\ obs.shadow[49152] = 165 /\ Rd(gb.wram, 0) = 165

WriteTo(addr) == obs'.kind = "write" /\ obs'.addr = addr

\* C17: a write to LY (0xFF44) changes nothing in the context; a write of v
\* to STAT (0xFF41) sets bits 3-6 of STAT from v, keeps bits 0-2 and leaves
\* bit 7 set, and changes nothing else.
C17_ReadOnlyBits ==
    [][/\ WriteTo(65348) => gb' = gb
       /\ WriteTo(65345) =>
            /\ And(IO(gb', IO_STAT), 120) = And(obs'.val, 120)
            /\ And(IO(gb', IO_STAT), 7) = And(IO(gb, IO_STAT), 7)
            /\ And(mmu_read(gb', 65345), 128) = 128
            /\ gb' = SetIO(gb, IO_STAT, IO(gb', IO_STAT))]_vars

\* LY = 1 and STAT = 0xDA (0x5A written in mode 2) after a write to LY
C17_Witness ==
    /\ obs.kind = "write" /\ obs.addr = 65348 /\ obs.val = 90
    /\ IO(gb, IO_STAT) = 218 /\ IO(gb, IO_LY) = 1

\* JOYP, DIV, IF, LCDC, STAT, LY, DMA, BGP, OBP0, OBP1
SpecialIO == {65280 + r : r \in {IO_JOYP, IO_DIV, IO_IF, IO_LCDC, IO_STAT,
                                 IO_LY, IO_DMA, IO_BGP, IO_OBP0, IO_OBP1}}

PlainIO(addr) == addr >= 65280 /\ addr <= 65535 /\ addr \notin SpecialIO

\* C18: every address of 0xFF00 - 0xFFFF without special semantics is plain
\* storage: a read that follows a write of v to the same address returns v.
C18_PlainStorage ==
    [][(obs.kind = "write" /\ PlainIO(obs.addr)
          /\ obs'.kind = "read" /\ obs'.addr = obs.addr)
         => obs'.val = obs.val]_vars

\* the instruction of the last step wrote v to IF (0xFF0F) as its last write
GuestWroteIF(v) ==
    /\ Stepped
    /\ Len(gb.writes) > Len(gb.svc.writes)
    /\ gb.writes[Len(gb.writes)] = <<65295, v>>

\* C19: bits 5-7 of IF are 1 in every state, also after the PPU has raised
\* and the interrupt service has cleared a bit, and a guest write of v to
\* 0xFF0F stores v | 0xE0 (the timing of the same step can only add bits).
C19_IFTopBits ==
    /\ And(IO(gb, IO_IF), 224) = 224
    /\ \A v \in 0..255 :
          GuestWroteIF(v) =>
              /\ And(IO(gb, IO_IF), Or(v, 224)) = Or(v, 224)
              /\ ~gb.vblank => IO(gb, IO_IF) = Or(v, 224)

\* the service has cleared bit 0 of an IF that the guest had written as 0x01
C19_Witness ==
    /\ gb.irq # -1 /\ gb.pre.iflag = 225 /\ IO(gb, IO_IF) = 224

\* C20: from a write of any value to DIV (0xFF04) on, DIV is the number of
\* cycles accounted since the write (the writing instruction's included)
\* divided by 256, modulo 256, and div_count is the remainder.
C20_DivCounts ==
    obs.div_on =>
        /\ IO(gb, IO_DIV) = (obs.div_cyc \div DIV_CYCLES) % 256
        /\ gb.div_count = obs.div_cyc % DIV_CYCLES

\* DIV has wrapped: more than 256 * 256 cycles after the write of 0x91
C20_Witness ==
    /\ obs.div_on /\ obs.div_cyc > 65536
    /\ IO(gb, IO_DIV) = 3 /\ gb.a = 145

\* the context once mmu_write has stored N in the DMA register
DmaLatched == SetIO(gb, IO_DMA, obs'.val)

\* C21: a write of N to DMA (0xFF46) leaves in OAM[i], i = 0..159, the byte
\* mmu_read returns for N*0x100 + i, and changes nothing but OAM and the DMA
\* register.
C21_DmaCopy ==
    [][WriteTo(65350) =>
         /\ \A i \in 0..(OAM_SIZE - 1) :
               Rd(gb'.oam, i) = mmu_read(DmaLatched, obs'.val * 256 + i)
         /\ gb' = [DmaLatched EXCEPT !.oam = gb'.oam]]_vars

\* OAM holds the WRAM page 0xC000 after a DMA from there
C21_Witness ==
    /\ obs.kind = "write" /\ obs.addr = 65350 /\ obs.val = 192
    /\ Rd(gb.wram, 0) = 90 /\ Rd(gb.oam, 0) = 90 /\ IO(gb, IO_DMA) = 192

\* LCDC bit 7 before the write, and in the byte written
LcdWasOn == And(IO(gb, IO_LCDC), LCDC_ENABLE) # 0
LcdIsNowOn == And(obs'.val, LCDC_ENABLE) # 0

\* C22: a write to LCDC (0xFF40) that sets bit 7 puts STAT in mode 2 with
\* LY = 0, lcd_count = 0 and the "LCD just enabled" flag set; one that clears
\* bit 7 puts STAT in mode 0 with LY = 0, lcd_count = 0; one that leaves bit 7
\* as it was changes none of STAT, LY, lcd_count and the flag.
C22_LcdcWrite ==
    [][WriteTo(65344) =>
         /\ (~LcdWasOn /\ LcdIsNowOn) =>
               /\ StatMode(gb') = LCD_MODE_OAM_SCAN /\ IO(gb', IO_LY) = 0
               /\ gb'.lcd_count = 0 /\ gb'.lcd_blank
         /\ (LcdWasOn /\ ~LcdIsNowOn) =>
               /\ StatMode(gb') = LCD_MODE_HBLANK /\ IO(gb', IO_LY) = 0
               /\ gb'.lcd_count = 0
         /\ (LcdWasOn <=> LcdIsNowOn) =>
               /\ IO(gb', IO_STAT) = IO(gb, IO_STAT)
               /\ IO(gb', IO_LY) = IO(gb, IO_LY)
               /\ gb'.lcd_count = gb.lcd_count
               /\ gb'.lcd_blank = gb.lcd_blank]_vars

\* the LCD turned off on a context that had reached LY = 1 in OAM scan
C22_Witness ==
    /\ obs.kind = "write" /\ obs.addr = 65344 /\ obs.val = 90
    /\ Stepped /\ gb.div_count # 0
    /\ StatMode(gb) = LCD_MODE_HBLANK /\ IO(gb, IO_LY) = 0 /\ gb.lcd_count = 0
    /\ ~gb.lcd_blank

\* the byte PUSH AF stored for F: the last mmu_write of the step
PushedF == gb.writes[Len(gb.writes)][2]

\* C23: in every state reachable from cpu_init, POP AF of any stack byte and
\* every flag-setting opcode included, the low nibble of F is 0, and the flag
\* byte PUSH AF writes has a low nibble of 0.
C23_FlagNibble ==
    /\ gb.f % 16 = 0
    /\ (Stepped /\ gb.opcode = 245) => PushedF % 16 = 0

\* 0xFF popped into F, and pushed again as 0xF0
C23_Witness ==
    /\ obs.name = "flags" /\ obs.v = 255 /\ gb.opcode = 245
    /\ gb.f = 240 /\ gb.a = 18 /\ PushedF = 240

\* the register pair a stack test works on: 0 BC, 1 DE, 2 HL, 3 AF
PairOf(g, rr) ==
    CASE rr = 0 -> BC(g) [] rr = 1 -> DE(g) [] rr = 2 -> HL(g)
      [] OTHER -> g.a * 256 + g.f

\* the value the pair held at the PUSH: v, for AF with F's low nibble 0
PairPushed == IF obs.op = 3 THEN obs.v - (obs.v % 16) ELSE obs.v

\* C24: with the stack in plain RAM (HRAM, WRAM, echo RAM), PUSH rr followed
\* by POP rr gives rr the value it had at the PUSH (BC, DE, HL, and AF with
\* the low nibble of F 0) and SP the value it had before the PUSH, whether or
\* not rr was overwritten in between.
C24_PushPop ==
    (obs.name = "stack" /\ nsteps = 0) =>
        /\ PairOf(gb, obs.op) = PairPushed
        /\ gb.sp = obs.w

\* DE = 0xA5F0 pushed on a stack in WRAM, overwritten with 0 and popped
C24_Witness ==
    /\ obs.name = "stack" /\ nsteps = 0 /\ obs.op = 1 /\ obs.v = 42480
    /\ obs.w = 53248 /\ gb.opcode = 209 /\ DE(gb) = 42480 /\ gb.sp = 53248
    /\ Rd(gb.wram, 4095) = 165 /\ Rd(rom.data, 263) = 17

\* the conditional instruction at gb.pc: its condition (0 NZ, 1 Z, 2 NC,
\* 3 C) on the flags of gb, its length, and where it goes when taken
CondHolds(op) ==
    LET cc == (op % 32) \div 8
    IN  (IF cc < 2 THEN Bit(gb.f, 7) ELSE Bit(gb.f, 4)) = cc % 2
CondLen(op) == IF op < 64 THEN 2 ELSE IF op % 8 = 0 THEN 1 ELSE 3
CondTarget(op) ==
    IF op < 64 THEN U16(gb.pc + 2 + Int8(mmu_read(gb, U16(gb.pc + 1))) + 65536)
    ELSE IF op % 8 = 0
      THEN mmu_read(gb, gb.sp) + 256 * mmu_read(gb, U16(gb.sp + 1))
    ELSE mmu_read(gb, U16(gb.pc + 1)) + 256 * mmu_read(gb, U16(gb.pc + 2))
\* 4 cycles more for JR and JP, 12 for CALL and RET
CondPenalty(op) == IF op < 64 \/ op % 8 = 2 THEN 4 ELSE 12

\* C25: a step that executes a conditional JR, JP, CALL or RET (condition
\* NZ, Z, NC or C) whose condition is false leaves PC just past the
\* instruction and its operand bytes, leaves SP and memory as they were and
\* returns the base cycle count of the opcode; one whose condition is true
\* leaves PC at the target and returns the base count plus the penalty.
C25_Conditional ==
    [][(IsStep /\ gb'.opcode \in CondOps /\ gb'.irq = -1) =>
         IF CondHolds(gb'.opcode)
           THEN /\ gb'.pc = CondTarget(gb'.opcode)
                /\ gb'.cycles = OPCODE_CYCLES[gb'.opcode + 1]
                                   + CondPenalty(gb'.opcode)
           ELSE /\ gb'.pc = U16(gb.pc + CondLen(gb'.opcode))
                /\ gb'.sp = gb.sp
                /\ gb'.writes = <<>>
                /\ gb'.wram = gb.wram /\ gb'.vram = gb.vram
                /\ gb'.oam = gb.oam /\ gb'.cram = gb.cram
                /\ gb'.cycles = OPCODE_CYCLES[gb'.opcode + 1]]_vars

\* JP Z,0x0106 at 0x0102 with Z clear: PC = 0x0105 after 12 cycles
C25_Witness ==
    /\ obs.name = "jump" /\ obs.v = 0 /\ nsteps = 0
    /\ gb.opcode = 202 /\ gb.pc = 261 /\ gb.cycles = 12 /\ gb.a = 1

\* the opcodes 0x80 - 0x9F and 0xB8 - 0xBF and their immediate forms: the
\* operation (0 ADD, 1 ADC, 2 SUB, 3 SBC, 7 CP), the source operand and the
\* carry-in, all taken from the context before the step
AluOps == (128..159) \cup (184..191) \cup AluImmOps
AluKind(op) == IF op < 192 THEN (op - 128) \div 8 ELSE (op - 198) \div 8
AluSrc(op) ==
    IF op < 192 THEN GetR(gb, op % 8) ELSE mmu_read(gb, U16(gb.pc + 1))
AluCin(op) == IF AluKind(op) \in {1, 3} THEN Bit(gb.f, 4) ELSE 0

\* A and F as 8-bit arithmetic defines them
AluExpected(op) ==
    LET a == gb.a
        src == AluSrc(op)
        cin == AluCin(op)
        add == AluKind(op) < 2
        res == IF add THEN (a + src + cin) % 256
               ELSE (a + 512 - src - cin) % 256
        z == BoolBit(res = 0)
        n == IF add THEN 0 ELSE 1
        h == IF add THEN BoolBit((a % 16) + (src % 16) + cin > 15)
             ELSE BoolBit((a % 16) < (src % 16) + cin)
        c == IF add THEN BoolBit(a + src + cin > 255)
             ELSE BoolBit(a < src + cin)
    IN  [a |-> IF AluKind(op) = 7 THEN a ELSE res,
         f |-> z * 128 + n * 64 + h * 32 + c * 16]

\* C26: for 8-bit a, src and carry-in cin, ADD / ADC leave
\* A = (a + src + cin) mod 256, Z from the result, N = 0, H the carry out of
\* bit 3, C the carry out of bit 7; SUB / SBC / CP leave Z from the result,
\* N = 1, H the borrow into bit 4, C the borrow out of bit 7, CP with A
\* unchanged; the opcodes with source A (0x97, 0x9F, 0xBF) included.
C26_AluFlags ==
    [][(IsStep /\ gb'.opcode \in AluOps /\ gb'.irq = -1) =>
          /\ gb'.a = AluExpected(gb'.opcode).a
          /\ gb'.f = AluExpected(gb'.opcode).f]_vars

\* ADD A,0x01 with A = 0xFF: A = 0, Z = 1, H = 1, C = 1, N = 0
C26_Witness ==
    /\ obs.name = "alu" /\ obs.v = 255 /\ obs.w = 1 /\ obs.op = 198
    /\ nsteps = 0 /\ gb.opcode = 198 /\ gb.a = 0 /\ gb.f = 176

\* LD A,0x3C ; ADD A,A ; DAA has run
DaaRun == obs.name = "daa" /\ obs.v = 60 /\ nsteps = 0

\* C27 as stated: DAA after ADD A,A with A = 0x3C leaves A = 0x72, H = 0,
\* Z = 0.
C27_DaaAsStated ==
    DaaRun => gb.a = 114 /\ FlagH(gb) = 0 /\ FlagZ(gb) = 0

\* C27 amended: DAA after ADD A,A with A = 0x3C leaves A = 0x7E, H = 0,
\* Z = 0 (the sum is 0x78 with H set, and DAA adds 0x06).
C27_Daa ==
    DaaRun => gb.a = 126 /\ FlagH(gb) = 0 /\ FlagZ(gb) = 0

\* the three steps taken, DAA the last of them
C27_Witness ==
    DaaRun /\ gb.opcode = 39 /\ gb.pc = 260 /\ gb.a = 126 /\ gb.f = 0

\* the context as mmu_init and cpu_init left it: no cpu_step and no
\* mmu_write has been called on it
Fresh == obs.kind = "boot" /\ ~Stepped

\* the four 2-bit shades a palette register packs, lowest bits first
Unpacked(reg) == [i \in 0..3 |-> (reg \div (4 ^ i)) % 4]

\* C28: after mmu_init and cpu_init WRAM, VRAM and OAM are all zero;
\* LCDC = 0x91, STAT = 0x85, BGP = 0xFC, OBP0 = OBP1 = 0xFF, IF = 0xE1,
\* DIV = 0xAB; A = 0x01, F = 0xB0, BC = 0x0013, DE = 0x00D8, HL = 0x014D,
\* SP = 0xFFFE, PC = 0x0100; the selected ROM bank is 1, cartridge RAM is
\* disabled, and the unpacked palettes agree with BGP, OBP0 and OBP1.
C28_PowerOn ==
    Fresh =>
        /\ gb.wram = Zeroed /\ gb.vram = Zeroed /\ gb.oam = Zeroed
        /\ IO(gb, IO_LCDC) = 145 /\ IO(gb, IO_STAT) = 133
        /\ IO(gb, IO_BGP) = 252 /\ IO(gb, IO_OBP0) = 255
        /\ IO(gb, IO_OBP1) = 255 /\ IO(gb, IO_IF) = 225
        /\ IO(gb, IO_DIV) = 171
        /\ gb.a = 1 /\ gb.f = 176 /\ BC(gb) = 19 /\ DE(gb) = 216
        /\ HL(gb) = 333 /\ gb.sp = 65534 /\ gb.pc = 256
        /\ gb.selected_rom_bank = 1
        /\ gb.enable_cart_ram = 0 /\ cart_ram_closed(gb)
        /\ \A i \in 0..3 :
              /\ gb.bg_palette[i] = Unpacked(IO(gb, IO_BGP))[i]
              /\ gb.sp_palette[i] = Unpacked(IO(gb, IO_OBP0))[i]
              /\ gb.sp_palette[i + 4] = Unpacked(IO(gb, IO_OBP1))[i]

\* the context bootloader() returns for an MBC1 cartridge with RAM
C28_Witness ==
    /\ Fresh /\ gb.mbc = 1 /\ gb.cart_ram = 1 /\ gb.num_ram_banks = 4
    /\ gb.pc = 256 /\ gb.bg_palette[0] = 0 /\ gb.bg_palette[3] = 3

\* the first scanline after initialisation: LY is still 0 and the host has
\* called nothing but cpu_step (NOPs of 4 cycles each)
FirstLine == obs.kind = "boot" /\ IO(gb, IO_LY) = 0

\* C29: right after initialisation the PPU is in OAM scan (STAT mode 2) at
\* LY = 0, and the first scanline goes through the modes 2, 3, 0 like any
\* other visible line: mode 2 below 80 line cycles, 3 below 252, 0 from
\* there on (where the line is drawn).
C29_FirstScanline ==
    FirstLine =>
        StatMode(gb) =
            IF gb.lcd_count < LCD_MODE2_OAM_SCAN_END THEN LCD_MODE_OAM_SCAN
            ELSE IF gb.lcd_count < LCD_MODE3_LCD_DRAW_END THEN LCD_MODE_LCD_DRAW
            ELSE LCD_MODE_HBLANK

\* test_basic_instructions has made its five calls of cpu_step
BasicRun == obs.name = "basic" /\ nsteps = 0

\* C30 as stated: the program 3E 42 3C 3D 3D 76 run from PC = 0x0100 for
\* five steps ends with A = 0x41, PC = 0x0105 and the halt flag set.
C30_BasicAsStated ==
    BasicRun => gb.a = 65 /\ gb.pc = 261 /\ gb.gb_halt

\* C30 amended: it ends with A = 0x41, PC = 0x0106 (past the HALT opcode at
\* 0x0105) and the halt flag set.
C30_Basic ==
    BasicRun => gb.a = 65 /\ gb.pc = 262 /\ gb.gb_halt

\* HALT was the fifth instruction executed
C30_Witness ==
    BasicRun /\ gb.opcode = 118 /\ gb.gb_halt /\ gb.a = 65 /\ FlagZ(gb) = 0

\* the context a step leaves when the case of HALT is run on the opcode it
\* fetched
SteppedAsHalt ==
    step_timing(op_halt(step_fetch(step_serviced(
        cpu_handle_interrupts(step_entry(gb))))))

\* C31: STOP (0x10) is treated as HALT (0x76): from the same state both
\* leave the same CPU state apart from the opcode consumed; in particular
\* STOP sets the halt flag.
C31_StopIsHalt ==
    [][(IsStep /\ gb'.opcode = 16) => gb' = SteppedAsHalt]_vars

-----------------------------------------------------------------------------
(* main.c : the emulator with its keyboard.  emulator_loop() polls the     *)
(* keys before each call of run_frame(); key R calls cpu_reset() and       *)
(* mmu_reset().  The ROM files of this host carry handlers at the          *)
(* interrupt vectors.                                                      *)

\* cpu.c : cpu_reset
cpu_reset(g) == [g EXCEPT !.pc = 0, !.gb_halt = FALSE, !.gb_ime = FALSE]

\* memory.c : mmu_reset
mmu_reset(g) == mmu_init(g)

\* handle_input(), case SDLK_r
handle_input_r(g) == mmu_reset(cpu_reset(g))

\* a ROM file with the same handler at the five interrupt vectors
HandlerImage(code, handler) ==
    [ size |-> 2 * ROM_BANK_SIZE,
      data |-> Image(code).data @@ Place(64, handler) @@ Place(72, handler)
                 @@ Place(80, handler) @@ Place(88, handler)
                 @@ Place(96, handler) ]

BlankLines == 250
NextLines == 106
OffLines == 150
VblLines == 146
KeySteps == 12700
VblSteps == 3720
StatSteps == 170
IntSteps == 12
MaxResets == 1

\* LD SP,0xD000 ; LCDC := 0x11 ; LCDC := 0x91 (the LCD is enabled again) ;
\* burn lines through the discarded frame into the next one ;
\* WY := 5 ; LCDC := 0x11 (LCD off in mid-frame) ; burn lines
KeyProg ==
    <<49, 0, 208, 62, 17, 224, 64, 62, 145, 224, 64, 6, BlankLines>>
        \o BurnLine \o <<6, NextLines>> \o BurnLine
        \o <<62, 5, 224, 74, 62, 17, 224, 64, 6, OffLines>> \o BurnLine

\* STAT := statv ; IE := 3 ; IF := 0 ; EI ; burn lines into VBlank
VblProg(statv) ==
    <<62, statv, 224, 65, 62, 3, 224, 255, 175, 224, 15, 251, 6, VblLines>>
        \o BurnLine

\* STAT := statv ; LYC := lycv ; IE := 2 ; IF := 0 ; EI ;
\* L: LDH A,(0x44) ; LD B,A ; LDH A,(0x41) ; NOP ; JR L
StatProg(statv, lycv) ==
    <<62, statv, 224, 65, 62, lycv, 224, 69, 62, 2, 224, 255, 175, 224, 15,
      251, 240, 68, 71, 240, 65, 0, 24, 248>>

\* LD SP,spv ; IE := 31 ; IF := ifv ; EI ; NOPs
IntProg(spv, ifv) ==
    <<49, spv % 256, spv \div 256, 62, 31, 224, 255, 62, ifv, 224, 15, 251>>

VblStats == {0, 16}
StatStats == {0, 8, 32, 64, 96}
StatLycs == {1, 2}
IntSPs == {65534, 53248, 49154}
IntIFs == {1, 2, 4, 24, 31}
\* RETI ; INC A, RETI ; PUSH BC, POP BC, RETI ; EI, NOP, RETI ; INC SP, RETI
Handlers == {<<217>>, <<60, 217>>, <<197, 193, 217>>, <<251, 0, 217>>,
             <<51, 217>>}

HostInputs ==
    {[image |-> HandlerImage(KeyProg, <<217>>), budget |-> KeySteps]}
    \cup {[image |-> HandlerImage(VblProg(sv), <<217>>), budget |-> VblSteps] :
             sv \in VblStats}
    \cup {[image |-> HandlerImage(StatProg(sv, lv), <<217>>),
           budget |-> StatSteps] : sv \in StatStats, lv \in StatLycs}
    \cup {[image |-> HandlerImage(IntProg(spv, ifv), h), budget |-> IntSteps] :
             spv \in IntSPs, ifv \in IntIFs, h \in Handlers}

\* resets: presses of key R; hook_calls: calls of the scanline hook since
\* the last frame-complete edge; enabling: LCDC bit 7 was turned on by a
\* write and LY has not reached 144 since; reenabled: that has happened and
\* LY has reached 144 since; isr_*: an interrupt was dispatched from pc with
\* sp and RETI has not run since, isr_ei: EI has run since
HostObsInit ==
    [ resets |-> 0, hook_calls |-> 0, enabling |-> FALSE, reenabled |-> FALSE,
      isr_open |-> FALSE, isr_pc |-> 0, isr_sp |-> 0, isr_ei |-> FALSE ]

\* the step from g to g2 wrote LCDC with bit 7 set while bit 7 was clear
TurnedOn(g, g2) ==
    /\ ~LcdOn(g)
    /\ \E i \in DOMAIN g2.writes :
           g2.writes[i][1] = 65344 /\ And(g2.writes[i][2], LCDC_ENABLE) # 0

ObserveHook(o, g, g2) ==
    [o EXCEPT !.hook_calls = IF g2.vblank THEN 0 ELSE @ + Len(g2.draws),
              !.enabling = IF g2.vblank THEN FALSE
                           ELSE IF TurnedOn(g, g2) THEN TRUE ELSE @,
              !.reenabled = @ \/ (o.enabling /\ g2.vblank)]

ObserveIsr(o, g2) ==
    IF g2.exited THEN o
    ELSE IF g2.opcode = 217
      THEN [o EXCEPT !.isr_open = FALSE, !.isr_ei = FALSE]
    ELSE IF g2.irq # -1
      THEN [o EXCEPT !.isr_open = TRUE, !.isr_pc = g2.pre.pc,
                     !.isr_sp = g2.pre.sp, !.isr_ei = (g2.opcode = 251)]
    ELSE [o EXCEPT !.isr_ei = @ \/ (o.isr_open /\ g2.opcode = 251)]

HostObserve(o, g, g2) == ObserveIsr(ObserveHook(o, g, g2), g2)

HostInit ==
    \E p \in HostInputs :
        /\ bootloader_accepts(p.image)
        /\ rom = p.image
        /\ nsteps = p.budget
        /\ gb = [main_init(cart_info(p.image)) EXCEPT !.gb_error = TRUE]
        /\ obs = HostObsInit

\* run_frame(): while (!gb_frame) cpu_step(gb)
HostStep ==
    /\ ~gb.gb_frame
    /\ ~gb.exited
    /\ nsteps > 0
    /\ gb' = cpu_step(gb)
    /\ nsteps' = nsteps - 1
    /\ obs' = HostObserve(obs, gb, gb')
    /\ UNCHANGED rom

\* the next call of run_frame(): gb_frame = 0
HostFrame ==
    /\ gb.gb_frame
    /\ ~gb.exited
    /\ gb' = [gb EXCEPT !.gb_frame = FALSE]
    /\ UNCHANGED <<rom, nsteps, obs>>

\* key R, polled before a call of run_frame()
HostReset ==
    /\ gb.gb_frame \/ gb.opcode = -1
    /\ ~gb.exited
    /\ obs.resets < MaxResets
    /\ gb' = handle_input_r(gb)
    /\ obs' = [obs EXCEPT !.resets = @ + 1, !.isr_open = FALSE,
                          !.isr_ei = FALSE]
    /\ UNCHANGED <<rom, nsteps>>

HostNext == HostStep \/ HostFrame \/ HostReset

HostSpec == HostInit /\ [][HostNext]_vars

\* the registers cpu_reset is documented to set
CpuRegs(g) == <<g.a, g.f, BC(g), DE(g), HL(g), g.sp, g.pc, g.gb_ime, g.gb_halt>>

IsReset == obs'.resets # obs.resets

\* C32: after cpu_reset the values of A, F, BC, DE, HL, SP, PC, IME and the
\* halt flag do not depend on the state before the reset: they are the values
\* a reset of the freshly booted context gives.
C32_ResetDefaults ==
    [][IsReset =>
         CpuRegs(gb') = CpuRegs(handle_input_r(main_init(cart_info(rom))))]_vars

\* the PPU left mode 3 for mode 0 in this step
DrawEdge ==
    /\ IsStep /\ ~WroteTo(gb', 65344)
    /\ StatMode(gb) = LCD_MODE_LCD_DRAW /\ StatMode(gb') = LCD_MODE_HBLANK

\* C33: after a write that turns LCDC bit 7 from 0 to 1 no step invokes the
\* scanline hook until LY has reached 144, which is the only thing that ends
\* the discarded frame; from the following frame on, with the LCD still on,
\* the hook is invoked with the line at every mode 3 -> 0 edge.
C33_FirstFrameDiscarded ==
    [][IsStep =>
         /\ obs'.enabling => gb'.draws = <<>>
         /\ (obs.enabling /\ ~obs'.enabling) =>
                IO(gb', IO_LY) = LCD_HEIGHT /\ gb'.draws = <<>>
         /\ (obs.reenabled /\ ~obs'.enabling /\ DrawEdge /\ LcdOn(gb')) =>
                gb'.draws = <<IO(gb', IO_LY)>>]_vars

\* a line of the frame after the discarded one has been handed to the hook
C33_Witness ==
    /\ obs.reenabled /\ ~obs.enabling /\ LcdOn(gb)
    /\ StatMode(gb) = LCD_MODE_HBLANK /\ gb.draws = <<IO(gb, IO_LY)>>

\* the step took LY from 143 to 144
EntersVBlank == IO(gb, IO_LY) = LCD_HEIGHT - 1 /\ IO(gb', IO_LY) = LCD_HEIGHT

\* IF bit 0 is set after the step, was clear once the step had serviced its
\* interrupt, and the step's instruction did not write IF
RaisesVBlank ==
    /\ Bit(IO(gb', IO_IF), 0) = 1 /\ Bit(gb'.svc.iflag, 0) = 0
    /\ ~WroteTo(gb', 65295)

\* C34: gb_frame is set only by the new-line transition at which LY becomes
\* 144; that transition also sets STAT mode 1 and IF bit 0, clears the "LCD
\* just enabled" flag and sets IF bit 1 if STAT bit 4 is set; no other step
\* raises IF bit 0 by itself.
C34_FrameEdge ==
    [][IsStep =>
         /\ gb'.gb_frame => EntersVBlank
         /\ RaisesVBlank => EntersVBlank
         /\ EntersVBlank =>
              /\ gb'.gb_frame /\ StatMode(gb') = LCD_MODE_VBLANK
              /\ Bit(IO(gb', IO_IF), 0) = 1 /\ ~gb'.lcd_blank
              /\ Bit(IO(gb', IO_STAT), 4) = 1 => Bit(IO(gb', IO_IF), 1) = 1]_vars

\* the frame edge reached with STAT bit 4 set: both requests are pending
C34_Witness ==
    /\ gb.gb_frame /\ IO(gb, IO_LY) = LCD_HEIGHT
    /\ Bit(IO(gb, IO_STAT), 4) = 1 /\ IO(gb, IO_IF) % 4 = 3
    /\ Bit(gb.svc.iflag, 1) = 0

\* the step ended a scanline: LY was incremented (a write that turns the LCD
\* on or off at LY = 255 also leaves LY = 0)
NewLine ==
    /\ IsStep /\ IO(gb', IO_LY) = U8(IO(gb, IO_LY) + 1)
    /\ ~(IO(gb, IO_LY) = 255 /\ WroteTo(gb', 65344))

LycMatch == IO(gb', IO_LY) = IO(gb', IO_LYC)

\* the mode interrupt the new line selects: mode 1 at LY = 144, mode 2 above
ModeSource ==
    \/ IO(gb', IO_LY) = LCD_HEIGHT /\ Bit(IO(gb', IO_STAT), 4) = 1
    \/ IO(gb', IO_LY) < LCD_HEIGHT /\ Bit(IO(gb', IO_STAT), 5) = 1

\* C35: at every new-line transition, after LY has been incremented, STAT
\* bit 2 is set iff LY = LYC; IF bit 1 is raised when they match and STAT
\* bit 6 is set; a match with STAT bit 6 clear leaves IF bit 1 clear unless
\* the mode interrupt of the line raises it or it was already set.
C35_Coincidence ==
    [][NewLine =>
         /\ Bit(IO(gb', IO_STAT), 2) = 1 <=> LycMatch
         /\ (LycMatch /\ Bit(IO(gb', IO_STAT), 6) = 1) =>
                Bit(IO(gb', IO_IF), 1) = 1
         /\ (LycMatch /\ Bit(IO(gb', IO_STAT), 6) = 0 /\ ~ModeSource
               /\ Bit(gb'.svc.iflag, 1) = 0 /\ ~WroteTo(gb', 65295)) =>
                Bit(IO(gb', IO_IF), 1) = 0]_vars

\* a line that matches LYC has begun with only STAT bit 6 selected: the
\* request is raised
C35_Witness ==
    /\ Stepped /\ gb.lcd_count < gb.cycles /\ IO(gb, IO_LY) = IO(gb, IO_LYC)
    /\ IO(gb, IO_LY) = 2
    /\ Bit(IO(gb, IO_STAT), 2) = 1 /\ Bit(IO(gb, IO_STAT), 6) = 1
    /\ Bit(IO(gb, IO_STAT), 5) = 0
    /\ Bit(gb.svc.iflag, 1) = 0 /\ Bit(IO(gb, IO_IF), 1) = 1

\* C36: the window line latched in the display state changes only at the
\* new-line transition to LY = 0; a guest write to WY (0xFF4A) in mid-frame
\* leaves it as it is until then.
C36_WyLatched ==
    [][(IsStep /\ gb'.WY # gb.WY) =>
         (NewLine /\ IO(gb', IO_LY) = 0)]_vars

\* the step executed LDH A,(n) on STAT or LY
ReadsLcd ==
    /\ gb'.opcode = 240
    /\ mmu_read(gb, U16(gb'.svc.pc + 1)) \in {IO_STAT, IO_LY}

\* C37: within one step the interrupt service comes first, then the fetch,
\* the instruction and last the PPU tick: the service is decided on IME and
\* IF & IE as the step finds them (so a request raised by the tick of one
\* step is serviced by the next step exactly when IME is set and IE enables
\* it), the opcode is fetched at the vector when the step serviced one, and
\* LDH A,(0x41 / 0x44) loads the value STAT or LY had when the step began.
C37_StepOrder ==
    [][IsStep =>
         /\ gb'.irq # -1 <=> (gb.gb_ime /\ Pending(gb) # 0)
         /\ gb'.irq # -1 => gb'.opcode = mmu_read(gb, gb'.irq)
         /\ gb'.irq = -1 => gb'.opcode = mmu_read(gb, gb.pc)
         /\ ReadsLcd =>
                gb'.a = IO(gb, mmu_read(gb, U16(gb'.svc.pc + 1)))]_vars

\* LY was read by the step whose tick then ended the scanline
C37_Witness ==
    /\ Stepped /\ gb.opcode = 240 /\ gb.irq = -1
    /\ mmu_read(gb, U16(gb.svc.pc + 1)) = IO_LY
    /\ gb.lcd_count < gb.cycles /\ IO(gb, IO_LY) = gb.a + 1

\* work RAM or high RAM: bytes that read back what was written
PlainRam(addr) == addr \in 49152..56831 \/ addr \in 65408..65534

\* the step executed RETI
Returns == IsStep /\ ~gb'.exited /\ gb'.opcode = 217

\* the dispatch RETI answers: the one of this step, or else the one noted
IsrPc == IF gb'.irq # -1 THEN gb'.pre.pc ELSE obs.isr_pc
IsrSp == IF gb'.irq # -1 THEN gb'.pre.sp ELSE obs.isr_sp

\* RETI finds SP back at s - 2 and the return address as it was pushed
StackIntact ==
    /\ gb'.svc.sp = U16(IsrSp - 2)
    /\ PlainRam(U16(IsrSp - 2)) /\ PlainRam(U16(IsrSp - 1))
    /\ gb'.irq = -1 =>
          /\ mmu_read(gb, U16(IsrSp - 2)) = IsrPc % 256
          /\ mmu_read(gb, U16(IsrSp - 1)) = IsrPc \div 256

\* C38: an interrupt dispatched with PC = p and SP = s (stack in plain RAM)
\* whose handler runs RETI with SP back at s - 2 and the two stack bytes
\* unmodified ends with PC = p, SP = s and IME = 1; between the dispatch and
\* the RETI, with no EI executed, no further interrupt is dispatched.
C38_RoundTrip ==
    [][IsStep =>
         /\ (Returns /\ (gb'.irq # -1 \/ obs.isr_open) /\ StackIntact) =>
                gb'.pc = IsrPc /\ gb'.sp = IsrSp /\ gb'.gb_ime
         /\ (obs.isr_open /\ ~obs.isr_ei) => gb'.irq = -1]_vars

\* a handler of several instructions has returned to the interrupted program
\* with the stack at 0xD000
C38_Witness ==
    /\ Stepped /\ gb.opcode = 217 /\ gb.irq = -1 /\ ~obs.isr_open
    /\ obs.isr_sp = 53248 /\ obs.isr_pc \in 337..348
    /\ gb.pc = obs.isr_pc /\ gb.sp = 53248 /\ gb.gb_ime
    /\ Pending(gb) # 0

\* C39: every call of the scanline hook passes a line in 0..143, and the
\* hook is called at most 144 times between two consecutive frame-complete
\* edges, whatever the steps (LCDC toggles and resets included).
C39_HookBudget ==
    /\ \A i \in DOMAIN gb.draws : gb.draws[i] \in 0..(LCD_HEIGHT - 1)
    /\ obs.hook_calls <= LCD_HEIGHT

-----------------------------------------------------------------------------
(* main.c : run_frame().  The loop while (!gb_frame) cpu_step(gb) takes a  *)
(* step whenever the frame flag is clear, which is weak fairness of the    *)
(* step.  The guests of these runs never write LCDC.                       *)

LiveNopSteps == 46000
LiveHaltSteps == 30000

\* IE := 1 ; EI ; L: HALT ; JR L
HaltLoop == <<62, 1, 224, 255, 251, 118, 24, 253>>

LiveInputs ==
    {[image |-> HandlerImage(<<>>, <<217>>), budget |-> LiveNopSteps],
     [image |-> HandlerImage(HaltLoop, <<217>>), budget |-> LiveHaltSteps]}

LiveInit ==
    \E p \in LiveInputs :
        /\ bootloader_accepts(p.image)
        /\ rom = p.image
        /\ nsteps = p.budget
        /\ gb = [main_init(cart_info(p.image)) EXCEPT !.gb_error = TRUE]
        /\ obs = HostObsInit

LiveNext == HostStep \/ HostFrame

\* the loop takes its next step: what HostStep does to the step count
LoopStep ==
    ~gb.gb_frame /\ ~gb.exited /\ nsteps > 0 /\ nsteps' = nsteps - 1

LiveSpec == LiveInit /\ [][LiveNext]_vars /\ WF_nsteps(LoopStep)

\* the steps that take LY once around all its 256 values at 4 cycles a step
LapSteps == (256 * LCD_LINE_CYCLES) \div 4

\* the frame loop is running and the exploration has a lap of steps left
InFrameLoop == ~gb.gb_frame /\ ~gb.exited /\ nsteps >= LapSteps

\* C40: the frame loop terminates: every step that executes a defined opcode
\* accounts at least 4 cycles, and from every state of the loop (the guest
\* not writing LCDC) the frame-complete flag is eventually latched.
C40_FrameLoopEnds ==
    /\ []((Stepped /\ ~gb.exited) => gb.cycles >= 4)
    /\ (InFrameLoop ~> gb.gb_frame)

\* the flag latched a second time, LY having gone once around
C40_Witness ==
    /\ gb.gb_frame /\ IO(gb, IO_LY) = LCD_HEIGHT /\ obs.hook_calls = 0
    /\ nsteps < LiveNopSteps - LapSteps

====
